---- MODULE Spec2Model ----
(***************************************************************************)
(* Model of the retrieval and context-selection subsystem of the Asha      *)
(* career assistant: query enhancement and semantic search                 *)
(* (app/services/rag_service.py), the index build scripts                  *)
(* (app/utils/embed_jobs.py, app/utils/vector_store.py), follow-up         *)
(* resolution (app/services/llm_service.py) and the chat turn handling of  *)
(* frontend/app.py.                                                        *)
(*                                                                         *)
(* Python str values are TLA+ strings; `in`, lower() and split() are       *)
(* computed character by character.                                        *)
(***************************************************************************)
EXTENDS Integers, Sequences, FiniteSets, TLC

VARIABLES
    query,          \* the str argument of the call under way
    \* ---- rag_service.enhance_job_query ----
    enhanced,       \* its return value, NoValue before the call returns
    rule,           \* which return statement produced it (1..5), 0 before
    prev,           \* the previous call [query, enhanced, rule], or NoCall
    \* ---- llm_service.generate_structured_job_response ----
    jobs,           \* the list of job dicts passed in
    selected_job,   \* position in jobs of the dict selected_job refers to, 0 for None
    branch,         \* the statement that bound selected_job
    response,       \* the template returned, NoValue before the call returns
    job_type,       \* the local job_type that the templates render, NoValue before
    \* ---- data files, index build scripts, rag_service module state ----
    corpus,         \* rows of data/job_listing_data.csv
    changes,        \* number of times the CSV has been replaced so far
    emb_file,       \* data/job_embeddings.npy
    chunks_file,    \* data/job_chunks.npy
    index_file,     \* data/faiss_index.bin
    file_status,    \* whether the index and the chunk file on disk can be read
    loaded,         \* rag_service has been imported
    index,          \* rag_service.index: the vectors of the FAISS index
    job_chunks,     \* rag_service.job_chunks
    top_k,          \* argument of the semantic_search call, 0 before a call
    indices,        \* indices[0] as returned by index.search
    results,        \* the list returned
    raised,         \* the exception the call raised, NoValue if it returned
    \* ---- frontend/app.py: st.session_state and the services it loads ----
    show_login,     \* st.session_state.show_login
    user_id,        \* st.session_state.user_id, NoValue for None
    messages,       \* st.session_state.messages
    saved_chat,     \* the messages in the user's chat file
    session_context,\* st.session_state.context
    resume_mode,    \* st.session_state.resume_mode
    current_question, \* st.session_state.current_question
    user_info,      \* st.session_state.user_info
    api_key,        \* resume_builder.main: the key typed into the sidebar, NoValue for ""
    job_database,   \* JOB_DATABASE
    rag_available,  \* get_rag_service()["available"]
    user_input,     \* the chat input of this script run, NoValue if there was none
    context,        \* the metadata found by the context extraction loop, NoMeta for None
    \* ---- service functions called on their own ----
    reco_call,      \* the jobs_reco call that has returned: function, arguments, result
    \* ---- llm_service module state ----
    GEMINI_API_KEY, \* os.getenv("GEMINI_API_KEY"), NoValue for None
    api_key_verified, \* llm_service.api_key_verified
    memory,         \* llm_service.memory.chat_memory.messages
    advice_call     \* the generate_career_advice call that has returned

enhVars == <<enhanced, rule, prev>>
resVars == <<jobs, selected_job, branch, response, job_type>>
fileVars == <<corpus, changes, emb_file, chunks_file, index_file, file_status>>
ragVars == <<loaded, index, job_chunks>>
callVars == <<top_k, indices, results, raised>>
srchVars == <<corpus, changes, emb_file, chunks_file, index_file, file_status,
              loaded, index, job_chunks,
              top_k, indices, results, raised>>

appVars == <<show_login, user_id, messages, saved_chat, session_context, resume_mode,
             current_question, user_info, api_key, job_database, rag_available, user_input,
             context>>

llmVars == <<GEMINI_API_KEY, api_key_verified, memory, advice_call>>

svcVars == <<reco_call, GEMINI_API_KEY, api_key_verified, memory, advice_call>>

vars == <<query, enhanced, rule, prev, jobs, selected_job, branch, response, job_type,
          corpus, changes, emb_file, chunks_file, index_file, file_status,
          loaded, index, job_chunks,
          top_k, indices, results, raised,
          show_login, user_id, messages, saved_chat, session_context, resume_mode,
          current_question, user_info, api_key, job_database, rag_available, user_input, context,
          reco_call, GEMINI_API_KEY, api_key_verified, memory, advice_call>>

NoValue == "<none>"

\* st.session_state.user_info as initialised: every field the empty string
EmptyUserInfo ==
    [ f \in { "name", "email", "phone", "location", "summary", "education", "experience",
              "skills" } |-> "" ]

\* a message without a "metadata" key; context = None
NoMeta == [type |-> "none", jobs |-> << >>, user_preferences |-> NoValue]

\* job_categories = {}: a dict, modelled by its key order and its values
EmptyDatabase == [order |-> << >>, jobs |-> << >>]

\* faiss_index.bin and job_chunks.npy are both there and well-formed
FilesReadable == [index |-> "ok", chunks |-> "ok"]
NoCall == [query |-> NoValue, enhanced |-> NoValue, rule |-> 0]

(***************************************************************************)
(* Bounds                                                                  *)
(***************************************************************************)
MaxWords == 2       \* words per generated query
MaxJobs == 3        \* jobs per CandidateSet
MaxRows == 2        \* rows of the job listing CSV
MaxChanges == 2     \* replacements of the job listing CSV

(***************************************************************************)
(* Python string primitives                                                *)
(***************************************************************************)
UpperAlphabet == "ABCDEFGHIJKLMNOPQRSTUVWXYZ"
LowerAlphabet == "abcdefghijklmnopqrstuvwxyz"

\* str.lower() on one character
LowerMap ==
    [ c \in { SubSeq(UpperAlphabet, i, i) : i \in 1..Len(UpperAlphabet) } |->
        LET i == CHOOSE k \in 1..Len(UpperAlphabet) : SubSeq(UpperAlphabet, k, k) = c
        IN  SubSeq(LowerAlphabet, i, i) ]

LowerChar(c) == IF c \in DOMAIN LowerMap THEN LowerMap[c] ELSE c

RECURSIVE Lower(_)
\* str.lower()
Lower(s) ==
    IF s = "" THEN ""
    ELSE LowerChar(SubSeq(s, 1, 1)) \o Lower(SubSeq(s, 2, Len(s)))

\* `t in s` for two str values (the empty string is in every string)
Contains(s, t) ==
    \E i \in 1..(Len(s) - Len(t) + 1) : SubSeq(s, i, i + Len(t) - 1) = t

RECURSIVE SplitFrom(_, _, _)
\* str.split(): scan s from position i, cur is the token being read
SplitFrom(s, i, cur) ==
    IF i > Len(s)
    THEN IF cur = "" THEN << >> ELSE << cur >>
    ELSE IF SubSeq(s, i, i) = " "
         THEN IF cur = "" THEN SplitFrom(s, i + 1, "")
              ELSE << cur >> \o SplitFrom(s, i + 1, "")
         ELSE SplitFrom(s, i + 1, cur \o SubSeq(s, i, i))

Split(s) == SplitFrom(s, 1, "")

RECURSIVE Join(_, _)
\* sep.join(ws)
Join(sep, ws) ==
    IF Len(ws) = 0 THEN ""
    ELSE IF Len(ws) = 1 THEN ws[1]
    ELSE ws[1] \o sep \o Join(sep, Tail(ws))

\* any(p in s for p in ps), ps a sequence of str
ContainsAny(s, ps) == \E k \in 1..Len(ps) : Contains(s, ps[k])

\* `s in ps` for a list ps of str
InList(s, ps) == \E k \in 1..Len(ps) : ps[k] = s

(***************************************************************************)
(* rag_service.enhance_job_query                                           *)
(***************************************************************************)
affirmatives == << "yes", "sure", "ok", "okay", "tell me more", "go ahead", "please" >>

job_roles == << "developer", "engineer", "manager", "designer", "analyst",
                "scientist", "consultant", "specialist", "director" >>

tech_skills == << "python", "java", "javascript", "react", "node", "angular",
                  "machine learning", "data science", "cloud", "aws", "azure" >>

AffirmativeOutput == "show me detailed information about available jobs"
IndustryOutput(query_lower) == "jobs in " \o query_lower \o " industry sector"
\* a role template that itself mentions a sector
RoleOutput_sector(role) == "openings in the " \o role \o " sector"
RoleOutput(role) == "job openings for " \o role \o " positions"
SkillOutput(skill) == "jobs requiring " \o skill \o " skills"
DefaultOutput(q) == q \o " jobs and career opportunities"

RECURSIVE FirstIn(_, _, _)
\* for x in xs: if x in s: return <that x>   (0 when the loop falls through)
FirstIn(xs, s, k) ==
    IF k > Len(xs) THEN 0
    ELSE IF Contains(s, xs[k]) THEN k
    ELSE FirstIn(xs, s, k + 1)

\* enhance_job_query with the skill loop placed before the role loop
enhance_job_query_skills_first(q) ==
    LET query_lower == Lower(q)
        r == FirstIn(job_roles, query_lower, 1)
        s == FirstIn(tech_skills, query_lower, 1)
    IN  IF InList(query_lower, affirmatives)
        THEN [out |-> AffirmativeOutput, rule |-> 1]
        ELSE IF Contains(query_lower, "industry") \/ Contains(query_lower, "sector")
        THEN [out |-> IndustryOutput(query_lower), rule |-> 2]
        ELSE IF s # 0
        THEN [out |-> SkillOutput(tech_skills[s]), rule |-> 4]
        ELSE IF r # 0
        THEN [out |-> RoleOutput(job_roles[r]), rule |-> 3]
        ELSE [out |-> DefaultOutput(q), rule |-> 5]

\* the call as a whole: [out |-> returned str, rule |-> return statement taken]
enhance_job_query(q) ==
    LET query_lower == Lower(q)
        r == FirstIn(job_roles, query_lower, 1)
        s == FirstIn(tech_skills, query_lower, 1)
    IN  IF InList(query_lower, affirmatives)
        THEN [out |-> AffirmativeOutput, rule |-> 1]
        ELSE IF Contains(query_lower, "industry") \/ Contains(query_lower, "sector")
        THEN [out |-> IndustryOutput(query_lower), rule |-> 2]
        ELSE IF r # 0
        THEN [out |-> RoleOutput(job_roles[r]), rule |-> 3]
        ELSE IF s # 0
        THEN [out |-> SkillOutput(tech_skills[s]), rule |-> 4]
        ELSE [out |-> DefaultOutput(q), rule |-> 5]

\* user utterances handed to enhance_job_query
EnhWords == { "yes", "OK", "tell me more", "industry", "Sector", "developer",
              "Engineer", "director", "python", "javascript", "Java", "cloud",
              "remote", "find" }

RECURSIVE WordSeqs(_, _)
WordSeqs(W, n) ==
    IF n = 0 THEN { << >> }
    ELSE LET shorter == WordSeqs(W, n - 1)
         IN  shorter \cup { Append(ws, w) : ws \in { x \in shorter : Len(x) = n - 1 }, w \in W }

EnhQueries == { Join(" ", ws) : ws \in WordSeqs(EnhWords, MaxWords) \ { << >> } }

EnhIdle == enhanced = NoValue /\ rule = 0 /\ prev = NoCall
ResIdle ==
    /\ jobs = << >> /\ selected_job = 0 /\ branch = NoValue /\ response = NoValue
    /\ job_type = NoValue
SrchIdle ==
    /\ corpus = << >> /\ changes = 0 /\ emb_file = << >> /\ chunks_file = << >> /\ index_file = << >>
    /\ file_status = FilesReadable
    /\ loaded = FALSE /\ index = << >> /\ job_chunks = << >>
    /\ top_k = 0 /\ indices = << >> /\ results = << >> /\ raised = NoValue

\* no service function has been called on its own
NoRecoCall == [fn |-> NoValue, calls |-> 0]
NoAdviceCall == [calls |-> 0]
LlmIdle ==
    /\ GEMINI_API_KEY = NoValue
    /\ api_key_verified = FALSE
    /\ memory = << >>
    /\ advice_call = NoAdviceCall
SvcIdle == reco_call = NoRecoCall /\ LlmIdle

\* no Streamlit session: neither the login form nor the chat is shown
AppIdle ==
    /\ show_login = FALSE /\ user_id = NoValue /\ messages = << >> /\ saved_chat = << >>
    /\ session_context = "general" /\ resume_mode = FALSE /\ current_question = 0
    /\ user_info = EmptyUserInfo /\ api_key = NoValue
    /\ job_database = EmptyDatabase /\ rag_available = FALSE
    /\ user_input = NoValue /\ context = NoMeta

EnhInit ==
    /\ query \in EnhQueries
    /\ EnhIdle
    /\ ResIdle
    /\ SrchIdle
    /\ AppIdle
    /\ SvcIdle

\* semantic_search line 96: enhanced_query = enhance_job_query(query)
EnhanceCall ==
    /\ enhanced = NoValue
    /\ LET res == enhance_job_query(query)
       IN  /\ enhanced' = res.out
           /\ rule' = res.rule
    /\ UNCHANGED <<appVars, svcVars, query, prev, resVars, srchVars>>

\* the result of a call is passed to enhance_job_query again
ReEnhance ==
    /\ enhanced # NoValue
    /\ prev = NoCall
    /\ prev' = [query |-> query, enhanced |-> enhanced, rule |-> rule]
    /\ query' = enhanced
    /\ LET res == enhance_job_query(enhanced)
       IN  /\ enhanced' = res.out
           /\ rule' = res.rule
    /\ UNCHANGED <<appVars, svcVars, resVars, srchVars>>

EnhNext == EnhanceCall \/ ReEnhance

SpecEnhance == EnhInit /\ [][EnhNext]_vars

(***************************************************************************)
(* The ordered rule list of the query enhancer, stated rule by rule        *)
(***************************************************************************)
RuleHolds(k, q) ==
    LET ql == Lower(q)
    IN  CASE k = 1 -> \E a \in 1..Len(affirmatives) : ql = affirmatives[a]
          [] k = 2 -> Contains(ql, "industry") \/ Contains(ql, "sector")
          [] k = 3 -> \E r \in 1..Len(job_roles) : Contains(ql, job_roles[r])
          [] k = 4 -> \E t \in 1..Len(tech_skills) : Contains(ql, tech_skills[t])
          [] OTHER -> TRUE

\* the elements of xs that occur in the lower-cased query
Listed(xs, q) ==
    LET ql == Lower(q) IN { k \in 1..Len(xs) : Contains(ql, xs[k]) }

\* first element of xs, in list order, that occurs in the lower-cased query
FirstListed(xs, q) ==
    LET ks == Listed(xs, q)
    IN  xs[CHOOSE k \in ks : \A j \in ks : k <= j]

RuleResult(k, q) ==
    CASE k = 1 -> AffirmativeOutput
      [] k = 2 -> IndustryOutput(Lower(q))
      [] k = 3 -> RoleOutput(FirstListed(job_roles, q))
      [] k = 4 -> SkillOutput(FirstListed(tech_skills, q))
      [] OTHER -> DefaultOutput(q)

FirstRule(q) ==
    LET holds == { k \in 1..5 : RuleHolds(k, q) }
    IN  CHOOSE k \in holds : \A j \in holds : k <= j

\* C6: enhance_job_query applies exactly one rule, the first of the five
\* whose condition holds (for the role and skill rules: with the first
\* listed role or skill); its output is that rule's output and differs from
\* the output of every later rule whose condition also holds.
C6_FirstRuleOnly ==
    rule # 0 =>
        LET first == FirstRule(query)
        IN  /\ rule = first
            /\ enhanced = RuleResult(first, query)
            /\ \A j \in (first + 1)..5 :
                  RuleHolds(j, query) => enhanced # RuleResult(j, query)
            /\ rule = 3 => \A r \in Listed(job_roles, query) :
                  job_roles[r] # FirstListed(job_roles, query)
                      => enhanced # RoleOutput(job_roles[r])
            /\ rule = 4 => \A t \in Listed(tech_skills, query) :
                  tech_skills[t] # FirstListed(tech_skills, query)
                      => enhanced # SkillOutput(tech_skills[t])

\* a call returned by the role rule although the query also satisfies the
\* later skill rule
C6_Witness ==
    /\ rule = 3
    /\ prev = NoCall
    /\ RuleHolds(4, query)
    /\ enhanced = RoleOutput(FirstListed(job_roles, query))

\* C7: when the role rule fired on q, enhance_job_query applied to the
\* result fires the role rule again with the same role, so
\* enhance(enhance(q)) = enhance(q).
C7_RoleRuleIdempotent ==
    (prev # NoCall /\ prev.rule = 3) =>
        /\ rule = 3
        /\ enhanced = prev.enhanced
        /\ FirstListed(job_roles, query) = FirstListed(job_roles, prev.query)

\* the second application has run on the output of a role-rule call
C7_Witness ==
    /\ prev # NoCall
    /\ prev.rule = 3
    /\ query = prev.enhanced
    /\ rule # 0

(***************************************************************************)
(* jobs_reco.load_jobs_from_csv: one CSV row becomes one job dict          *)
(***************************************************************************)
RECURSIVE SplitOn(_, _, _, _)
\* s.split(sep) for a one-character sep: empty fields are kept
SplitOn(s, sep, i, cur) ==
    IF i > Len(s) THEN << cur >>
    ELSE IF SubSeq(s, i, i) = sep
         THEN << cur >> \o SplitOn(s, sep, i + 1, "")
         ELSE SplitOn(s, sep, i + 1, cur \o SubSeq(s, i, i))

RECURSIVE Strip(_)
\* str.strip()
Strip(s) ==
    IF s = "" THEN ""
    ELSE IF SubSeq(s, 1, 1) = " " THEN Strip(SubSeq(s, 2, Len(s)))
    ELSE IF SubSeq(s, Len(s), Len(s)) = " " THEN Strip(SubSeq(s, 1, Len(s) - 1))
    ELSE s

category_order == << "tech", "marketing", "finance", "hr" >>

load_keywords ==
    [ tech      |-> << "python", "java", "developer", "engineer", "data", "machine learning",
                       "ai", "backend", "frontend", "software", "coding", "programming", "IT" >>,
      marketing |-> << "marketing", "digital", "content", "seo", "social media",
                       "brand", "communications", "PR", "advertising" >>,
      finance   |-> << "finance", "accounting", "banking", "financial", "analyst",
                       "investment", "economics", "budget", "trading", "audit" >>,
      hr        |-> << "hr", "human resources", "recruiting", "talent", "hiring",
                       "people operations", "training", "personnel" >> ]

RECURSIVE assigned_category(_, _)
\* for category, category_keywords in keywords.items(): first category with a keyword in job_text
assigned_category(job_text, k) ==
    IF k > Len(category_order) THEN "other"
    ELSE IF ContainsAny(job_text, load_keywords[category_order[k]]) THEN category_order[k]
    ELSE assigned_category(job_text, k + 1)

\* the job dict built from one row of the CSV
job_dict(row) ==
    LET parts == SplitOn(row.skills, ",", 1, "")
        skills_list == [ i \in 1..Len(parts) |-> Strip(parts[i]) ]
        job_text == Lower(row.job_title \o " " \o Join(" ", skills_list))
    IN  [ title      |-> row.job_title,
          company    |-> row.company,
          location   |-> row.location,
          job_type   |-> row.job_type,
          skills     |-> skills_list,
          apply_link |-> row.apply_link,
          category   |-> assigned_category(job_text, 1) ]

\* rows of data/job_listing_data.csv used as the corpus
CsvRows ==
    << [ job_title |-> "Backend Developer", company |-> "Acme", location |-> "Bangalore",
         job_type |-> "Full-time", skills |-> "Python, Django", apply_link |-> "#" ],
       [ job_title |-> "Frontend Developer", company |-> "Acme", location |-> "Remote",
         job_type |-> "Contract", skills |-> "React, JavaScript", apply_link |-> "#" ],
       [ job_title |-> "Marketing Lead", company |-> "Brandify", location |-> "Mumbai",
         job_type |-> "Full-time", skills |-> "SEO, Content", apply_link |-> "#" ],
       [ job_title |-> "Data Analyst", company |-> "Yes Bank", location |-> "Mumbai",
         job_type |-> "Full-time", skills |-> "SQL, Excel", apply_link |-> "#" ],
       [ job_title |-> "YES Program Coordinator", company |-> "YES", location |-> "Delhi",
         job_type |-> "Part-time", skills |-> "Planning", apply_link |-> "#" ] >>

JobPool == { job_dict(CsvRows[i]) : i \in 1..Len(CsvRows) }

RECURSIVE SeqsUpTo(_, _)
\* all lists over S of length at most n
SeqsUpTo(S, n) ==
    IF n = 0 THEN { << >> }
    ELSE LET shorter == SeqsUpTo(S, n - 1)
         IN  shorter \cup { Append(xs, x) : xs \in { y \in shorter : Len(y) = n - 1 }, x \in S }

CandidateSets == SeqsUpTo(JobPool, MaxJobs)

(***************************************************************************)
(* llm_service.generate_structured_job_response                            *)
(***************************************************************************)
\* the matching condition without its title-word alternative
job_matches_no_title_word(job, query_lower) ==
    LET title == Lower(job.title)
        company == Lower(job.company)
        company_parts == Split(company)
    IN  \/ (Contains(query_lower, title) /\ Contains(query_lower, company))
        \/ Contains(query_lower, title \o " at " \o company)
        \/ (Contains(query_lower, title)
              /\ \E p \in 1..Len(company_parts) : Contains(query_lower, company_parts[p]))

\* the condition of the matching loop for one job
job_matches(job, query_lower) ==
    LET title == Lower(job.title)
        company == Lower(job.company)
        company_parts == Split(company)
        title_words == Split(title)
    IN  \/ (Contains(query_lower, title) /\ Contains(query_lower, company))
        \/ Contains(query_lower, title \o " at " \o company)
        \/ (Contains(query_lower, title)
              /\ \E p \in 1..Len(company_parts) : Contains(query_lower, company_parts[p]))
        \/ ((\E w \in 1..Len(title_words) : Contains(query_lower, title_words[w]))
              /\ Contains(query_lower, company))

RECURSIVE matching_loop(_, _, _)
\* for job in jobs: if <match>: selected_job = job; break
matching_loop(js, query_lower, k) ==
    IF k > Len(js) THEN 0
    ELSE IF job_matches(js[k], query_lower) THEN k
    ELSE matching_loop(js, query_lower, k + 1)

exact_affirmations == << "yes", "sure", "okay", "ok", "please", "definitely", "absolutely" >>
affirmation_phrases == << "yes", "want", "like to", "interested", "tell me more" >>

\* the affirmative branch taking jobs[-1]
affirmed_job_last(js) == Len(js)

\* selected_job = jobs[0] of the affirmative branch
affirmed_job(js) == 1

\* selected_job = jobs[0] of the default branch
default_job(js) == 1

application_keywords == << "apply", "application", "resume", "tips", "advice", "how to" >>
salary_keywords == << "salary", "pay", "compensation", "money", "benefit" >>
skills_keywords == << "skill", "requirement", "qualification", "need", "expect" >>
company_keywords == << "company", "culture", "work", "environment", "team", "about" >>
interview_keywords == << "interview", "question", "prepare", "ask" >>

\* the chain with the salary group tested before the application group
detail_template_salary_first(query_lower) ==
    IF ContainsAny(query_lower, salary_keywords) THEN "Compensation Information"
    ELSE IF ContainsAny(query_lower, application_keywords) THEN "Application Guide"
    ELSE IF ContainsAny(query_lower, skills_keywords) THEN "Skills & Requirements"
    ELSE IF ContainsAny(query_lower, company_keywords) THEN "Company Profile"
    ELSE IF ContainsAny(query_lower, interview_keywords) THEN "Interview Preparation"
    ELSE "Job Overview"

\* the if/elif chain over the keyword groups
detail_template(query_lower) ==
    IF ContainsAny(query_lower, application_keywords) THEN "Application Guide"
    ELSE IF ContainsAny(query_lower, salary_keywords) THEN "Compensation Information"
    ELSE IF ContainsAny(query_lower, skills_keywords) THEN "Skills & Requirements"
    ELSE IF ContainsAny(query_lower, company_keywords) THEN "Company Profile"
    ELSE IF ContainsAny(query_lower, interview_keywords) THEN "Interview Preparation"
    ELSE "Job Overview"

\* the "###" heading line that opens each template
section_heading(template, job) ==
    IF template = "Job Overview" THEN job.title \o " at " \o job.company
    ELSE IF template = "Company Profile" THEN template \o ": " \o job.company
    ELSE template \o ": " \o job.title \o " at " \o job.company

\* job.get(key, default) on a job dict
job_get(job, key, default) == IF key \in DOMAIN job THEN job[key] ELSE default

\* job_type = selected_job.get('type', 'Type not specified')
selected_job_type(job) == job_get(job, "type", "Type not specified")

\* rag_service.get_detailed_job_info: job_type = job.get("type", "Full-time")
detailed_job_type(job) == job_get(job, "type", "Full-time")

\* the call without its "if not jobs" early return
generate_structured_job_response_no_guard(q, js) ==
    LET query_lower == Lower(q)
        matched == matching_loop(js, query_lower, 1)
        affirmative == \/ InList(query_lower, exact_affirmations)
                       \/ ContainsAny(query_lower, affirmation_phrases)
        sel == IF matched # 0 THEN [job |-> matched, branch |-> "match"]
               ELSE IF affirmative THEN [job |-> affirmed_job(js), branch |-> "affirmative"]
               ELSE [job |-> default_job(js), branch |-> "default"]
    IN  [selected_job |-> sel.job, branch |-> sel.branch,
         response |-> detail_template(query_lower),
         job_type |-> IF sel.job \in 1..Len(js) THEN selected_job_type(js[sel.job])
                      ELSE NoValue]

\* the call as a whole
generate_structured_job_response(q, js) ==
    IF Len(js) = 0
    THEN [selected_job |-> 0, branch |-> "no jobs", response |-> "Job Search Assistance",
          job_type |-> NoValue]
    ELSE
      LET query_lower == Lower(q)
          matched == matching_loop(js, query_lower, 1)
          affirmative == \/ InList(query_lower, exact_affirmations)
                         \/ ContainsAny(query_lower, affirmation_phrases)
          sel == IF matched # 0 THEN [job |-> matched, branch |-> "match"]
                 ELSE IF affirmative THEN [job |-> affirmed_job(js), branch |-> "affirmative"]
                 ELSE [job |-> default_job(js), branch |-> "default"]
      IN  [selected_job |-> sel.job, branch |-> sel.branch,
           response |-> detail_template(query_lower),
           job_type |-> selected_job_type(js[sel.job])]

\* follow-up utterances
ResPhrases == { "yes", "Yes please", "tell me more", "what is the salary",
                "how do I apply", "acme", "the second one", "thanks",
                "any tips about the salary" }

ResQueries ==
    ResPhrases
    \cup { Lower(j.title) \o " at " \o Lower(j.company) : j \in JobPool }
    \cup { "tell me about " \o Lower(j.title) \o " at " \o Lower(j.company) : j \in JobPool }
    \cup { "Is the " \o j.title \o " role at " \o j.company \o " remote?" : j \in JobPool }

ResInit ==
    /\ query \in ResQueries
    /\ jobs \in CandidateSets
    /\ selected_job = 0
    /\ branch = NoValue
    /\ response = NoValue
    /\ job_type = NoValue
    /\ EnhIdle
    /\ SrchIdle
    /\ AppIdle
    /\ SvcIdle

StructuredJobResponse ==
    /\ query # NoValue
    /\ response = NoValue
    /\ LET res == generate_structured_job_response(query, jobs)
       IN  /\ selected_job' = res.selected_job
           /\ branch' = res.branch
           /\ response' = res.response
           /\ job_type' = res.job_type
    /\ UNCHANGED <<appVars, svcVars, query, jobs, enhVars, srchVars>>

ResNext == StructuredJobResponse

SpecResolve == ResInit /\ [][ResNext]_vars

\* the textual match rule of follow-up resolution, for one job and one query
MatchRule(job, q) ==
    LET ql == Lower(q)
        t == Lower(job.title)
        c == Lower(job.company)
        tokens(s) == { Split(s)[i] : i \in 1..Len(Split(s)) }
    IN  \/ Contains(ql, t) /\ Contains(ql, c)
        \/ Contains(ql, t \o " at " \o c)
        \/ Contains(ql, t) /\ \E tok \in tokens(c) : Contains(ql, tok)
        \/ Contains(ql, c) /\ \E tok \in tokens(t) : Contains(ql, tok)

\* C1: with 3 jobs and a query containing the lower-cased title and company
\* of the job at position 2, the selected job is the job at position 2.
C1_SecondJobSelected ==
    ( /\ response # NoValue
      /\ Len(jobs) = 3
      /\ Contains(query, Lower(jobs[2].title))
      /\ Contains(query, Lower(jobs[2].company)) )
    => (selected_job # 0 /\ jobs[selected_job] = jobs[2])

\* C2: with the query "yes" and a non-empty CandidateSet the first job of
\* the set is the one selected.
C2_YesSelectsFirst ==
    (response # NoValue /\ query = "yes" /\ Len(jobs) > 0)
    => (selected_job # 0 /\ jobs[selected_job] = jobs[1])

\* C2 (amended): with the query "yes" and a non-empty CandidateSet none of
\* whose jobs satisfies the textual match rule for "yes", the first job of
\* the set is selected.
C2_YesSelectsFirstUnlessMatched ==
    ( /\ response # NoValue
      /\ query = "yes"
      /\ Len(jobs) > 0
      /\ \A k \in 1..Len(jobs) : ~MatchRule(jobs[k], query) )
    => selected_job = 1

\* "yes" answered over a set of several different jobs, none matched
C2_Witness ==
    /\ response # NoValue
    /\ query = "yes"
    /\ Len(jobs) >= 2
    /\ jobs[1] # jobs[2]
    /\ \A k \in 1..Len(jobs) : ~MatchRule(jobs[k], query)
    /\ branch = "affirmative"

\* C3: for a non-empty CandidateSet exactly one job is selected, a member of
\* the set: the first job in presentation order satisfying the match rule,
\* and jobs[0] when none does.
C3_FirstMatchElseFirstJob ==
    (response # NoValue /\ Len(jobs) > 0)
    => LET hits == { k \in 1..Len(jobs) : MatchRule(jobs[k], query) }
       IN  /\ selected_job \in 1..Len(jobs)
           /\ hits # {} => (selected_job \in hits /\ \A k \in hits : selected_job <= k)
           /\ hits = {} => selected_job = 1

\* a later job of the set was selected by the match rule
C3_Witness ==
    /\ response # NoValue
    /\ Len(jobs) >= 2
    /\ selected_job >= 2
    /\ branch = "match"

(***************************************************************************)
(* utils/embed_jobs.py, utils/vector_store.py, rag_service: the index      *)
(***************************************************************************)
IndexError == "IndexError"

\* the chunk text built for one CSV row
chunk_text(row) ==
    "Job: " \o row.job_title \o " at " \o row.company \o " in " \o row.location
        \o ". Skills: " \o row.skills

\* SentenceTransformer.encode: a deterministic vector per text
Encode(text) == Len(text)

\* squared L2 distance of IndexFlatL2
L2(a, b) == (a - b) * (a - b)

\* index.search(query_vector, k)[1][0]: the k nearest rows by ascending
\* distance as 0-based labels, padded with -1 beyond the rows of the index
FaissSearch(idx, qv, k) ==
    LET n == Len(idx)
        before(i, j) == \/ L2(idx[i], qv) < L2(idx[j], qv)
                        \/ (L2(idx[i], qv) = L2(idx[j], qv) /\ i < j)
        rank(i) == Cardinality({ j \in 1..n : before(j, i) })
    IN  [ r \in 1..k |->
            IF r <= n THEN (CHOOSE i \in 1..n : rank(i) = r - 1) - 1 ELSE -1 ]

\* job_chunks[i] of a numpy array: negative i counts from the end
array_item(arr, i) ==
    IF i >= 0 /\ i < Len(arr) THEN arr[i + 1]
    ELSE IF i < 0 /\ i >= -Len(arr) THEN arr[Len(arr) + i + 1]
    ELSE IndexError

\* one result too many requested
requested_k_plus_one(k) == k + 1

\* number of results requested from the index
requested_k(k) == k

SearchQueries == { "python developer", "marketing jobs in Mumbai" }

\* enhance_job_query(query) tabulated over the queries searched for
EnhancedQuery == [ q \in SearchQueries |-> enhance_job_query(q).out ]

\* the call as a whole
semantic_search(q, k, idx, chunks) ==
    LET enhanced_query == EnhancedQuery[q]
        query_vector == Encode(enhanced_query)
        found == FaissSearch(idx, query_vector, requested_k(k))
        items == [ r \in 1..Len(found) |-> array_item(chunks, found[r]) ]
        fails == \E r \in 1..Len(items) : items[r] = IndexError
    IN  [ indices |-> found,
          results |-> IF fails THEN << >> ELSE items,
          raised  |-> IF fails THEN IndexError ELSE NoValue ]

RowPool == { CsvRows[1], CsvRows[3] }

Corpora == SeqsUpTo(RowPool, MaxRows) \ { << >> }

texts_of(rows) == [ i \in 1..Len(rows) |-> chunk_text(rows[i]) ]
embeddings_of(texts) == [ i \in 1..Len(texts) |-> Encode(texts[i]) ]

\* the data directory holds the artifacts built from the corpus
SrchInit ==
    /\ corpus \in Corpora
    /\ changes = 0
    /\ chunks_file = texts_of(corpus)
    /\ emb_file = embeddings_of(texts_of(corpus))
    /\ index_file = emb_file
    /\ file_status = FilesReadable
    /\ loaded = FALSE /\ index = << >> /\ job_chunks = << >>
    /\ top_k = 0 /\ indices = << >> /\ results = << >> /\ raised = NoValue
    /\ query = NoValue
    /\ EnhIdle
    /\ ResIdle
    /\ AppIdle
    /\ SvcIdle

\* the job listing CSV is replaced by a new version
ChangeCorpus ==
    /\ changes < MaxChanges
    /\ changes' = changes + 1
    /\ \E c \in Corpora : c # corpus /\ corpus' = c
    /\ UNCHANGED <<appVars, svcVars, emb_file, chunks_file, index_file, file_status, ragVars,
                   callVars, query, enhVars, resVars>>

\* embed_jobs.generate_embeddings
generate_embeddings ==
    /\ LET texts == texts_of(corpus)
       IN  /\ emb_file' = embeddings_of(texts)
           /\ chunks_file' = texts
    /\ file_status' = [file_status EXCEPT !.chunks = "ok"]
    /\ UNCHANGED <<appVars, svcVars, corpus, changes, index_file, ragVars, callVars, query,
                   enhVars, resVars>>

\* the vector_store script
build_index ==
    /\ Len(emb_file) > 0
    /\ index_file' = emb_file
    /\ file_status' = [file_status EXCEPT !.index = "ok"]
    /\ UNCHANGED <<appVars, svcVars, corpus, changes, emb_file, chunks_file, ragVars, callVars,
                   query, enhVars, resVars>>

\* the module-level faiss.read_index(INDEX_PATH) and np.load(CHUNKS_PATH) both return
rag_module_loads(fs) == fs.index = "ok" /\ fs.chunks = "ok"

\* import of rag_service by a starting process: read_index and np.load
load_rag_service ==
    /\ rag_module_loads(file_status)
    /\ index' = index_file
    /\ job_chunks' = chunks_file
    /\ loaded' = TRUE
    /\ top_k' = 0 /\ indices' = << >> /\ results' = << >> /\ raised' = NoValue
    /\ UNCHANGED <<appVars, svcVars, fileVars, query, enhVars, resVars>>

SemanticSearch ==
    /\ loaded
    /\ \E q \in SearchQueries, k \in 1..(MaxRows + 1) :
         LET res == semantic_search(q, k, index, job_chunks)
         IN  /\ query' = q
             /\ top_k' = k
             /\ indices' = res.indices
             /\ results' = res.results
             /\ raised' = res.raised
    /\ UNCHANGED <<appVars, svcVars, fileVars, ragVars, enhVars, resVars>>

SrchNext ==
    \/ ChangeCorpus
    \/ generate_embeddings
    \/ build_index
    \/ load_rag_service
    \/ SemanticSearch

SpecSearch == SrchInit /\ [][SrchNext]_vars

\* the loaded index and chunk array have the same length
SameLength == Len(index) = Len(job_chunks)

\* C8: for an index of N chunks and 1 <= top_k <= N, semantic_search
\* returns exactly top_k results, read from pairwise distinct positions
\* of the chunk array.
C8_ExactlyKDistinct ==
    (top_k >= 1 /\ SameLength /\ top_k <= Len(job_chunks))
    => /\ raised = NoValue
       /\ Len(results) = top_k
       /\ \A r \in 1..top_k : indices[r] \in 0..(Len(job_chunks) - 1)
       /\ \A r1, r2 \in 1..top_k : r1 # r2 => indices[r1] # indices[r2]

\* a search asked for every chunk of an index of at least two chunks
C8_Witness ==
    /\ SameLength
    /\ Len(job_chunks) >= 2
    /\ top_k = Len(job_chunks)
    /\ raised = NoValue
    /\ Len(results) = top_k

\* C9: for top_k greater than the number N of indexed chunks the request
\* is clamped: exactly N results, from distinct chunks, none of them read
\* through a padding index such as -1.
C9_ClampedToN ==
    (top_k >= 1 /\ SameLength /\ top_k > Len(job_chunks))
    => /\ raised = NoValue
       /\ Len(results) = Len(job_chunks)
       /\ \A r \in 1..Len(indices) : indices[r] >= 0
       /\ \A r1, r2 \in 1..Len(indices) : r1 # r2 => indices[r1] # indices[r2]

\* C10: the index and the chunk array loaded by rag_service have the same
\* length and index row i is the embedding of chunk i.
C10_IndexAlignedWithChunks ==
    loaded =>
        /\ Len(index) = Len(job_chunks)
        /\ \A i \in 1..Len(index) : index[i] = Encode(job_chunks[i])

(***************************************************************************)
(* jobs_reco: the categorised job database and the recommendations         *)
(***************************************************************************)
has_key(db, cat) == \E k \in 1..Len(db.order) : db.order[k] = cat

\* db.get(cat, [])
db_get(db, cat) ==
    IF has_key(db, cat)
    THEN db.jobs[CHOOSE k \in 1..Len(db.order) : db.order[k] = cat]
    ELSE << >>

\* job_categories[assigned_category].append(job_dict), creating the key first
add_job(db, job) ==
    IF has_key(db, job.category)
    THEN LET k == CHOOSE i \in 1..Len(db.order) : db.order[i] = job.category
         IN  [db EXCEPT !.jobs[k] = Append(@, job)]
    ELSE [order |-> Append(db.order, job.category), jobs |-> Append(db.jobs, << job >>)]

RECURSIVE process_rows(_, _, _)
\* for _, job in df.iterrows(): ...
process_rows(rows, i, db) ==
    IF i > Len(rows) THEN db
    ELSE process_rows(rows, i + 1, add_job(db, job_dict(rows[i])))

RECURSIVE ensure_categories(_, _)
\* for category in keywords.keys(): if category not in job_categories: ... = []
ensure_categories(db, k) ==
    IF k > Len(category_order) THEN db
    ELSE IF has_key(db, category_order[k]) THEN ensure_categories(db, k + 1)
    ELSE ensure_categories([order |-> Append(db.order, category_order[k]),
                            jobs |-> Append(db.jobs, << >>)], k + 1)

\* load_jobs_from_csv: file_found is whether one of the possible paths exists
load_jobs_from_csv(file_found, rows) ==
    IF ~file_found THEN EmptyDatabase
    ELSE ensure_categories(process_rows(rows, 1, EmptyDatabase), 1)

category_keywords ==
    [ tech      |-> << "software", "developer", "coding", "programming", "engineer", "tech",
                       "data", "IT", "python", "java", "web", "app", "devops", "cloud", "AI",
                       "machine learning" >>,
      marketing |-> << "marketing", "brand", "content", "social media", "SEO", "digital",
                       "campaign", "advertising", "communications", "PR" >>,
      finance   |-> << "finance", "accounting", "investment", "banking", "financial", "analyst",
                       "economics", "budget", "trading", "audit" >>,
      hr        |-> << "HR", "human resources", "recruiting", "talent", "hiring",
                       "people operations", "training", "personnel", "employees",
                       "recruitment" >> ]

\* " ".join of the content of the user messages
RECURSIVE user_contents(_, _)
user_contents(msgs, i) ==
    IF i > Len(msgs) THEN << >>
    ELSE IF msgs[i].role = "user" THEN << msgs[i].content >> \o user_contents(msgs, i + 1)
    ELSE user_contents(msgs, i + 1)

\* scores[category]
category_score(all_messages, cat) ==
    Cardinality({ w \in 1..Len(category_keywords[cat]) :
                    Contains(all_messages, category_keywords[cat][w]) })

\* the last category holding the maximum
last_max(all_messages) ==
    LET score(k) == category_score(all_messages, category_order[k])
        best == CHOOSE k \in 1..Len(category_order) :
                   /\ \A j \in 1..Len(category_order) : score(j) <= score(k)
                   /\ \A j \in (k + 1)..Len(category_order) : score(j) < score(k)
    IN  category_order[best]

\* max(scores.items(), key=...)[0]: the first category holding the maximum
first_max(all_messages) ==
    LET score(k) == category_score(all_messages, category_order[k])
        best == CHOOSE k \in 1..Len(category_order) :
                   /\ \A j \in 1..Len(category_order) : score(j) <= score(k)
                   /\ \A j \in 1..(k - 1) : score(j) < score(k)
    IN  category_order[best]

extract_job_category(user_messages) ==
    LET all_messages == Lower(Join(" ", user_contents(user_messages, 1)))
    IN  IF \E k \in 1..Len(category_order) : category_score(all_messages, category_order[k]) > 0
        THEN first_max(all_messages)
        ELSE "tech"

RECURSIVE all_jobs_of(_, _)
\* the jobs of every category, in key order
all_jobs_of(db, k) ==
    IF k > Len(db.order) THEN << >> ELSE db.jobs[k] \o all_jobs_of(db, k + 1)

RECURSIVE other_jobs_all(_, _, _)
\* all_jobs without the "if cat != category" test
other_jobs_all(db, category, k) ==
    IF k > Len(db.order) THEN << >>
    ELSE db.jobs[k] \o other_jobs_all(db, category, k + 1)

RECURSIVE other_jobs(_, _, _)
\* all_jobs: the jobs of every category but the main one, in key order
other_jobs(db, category, k) ==
    IF k > Len(db.order) THEN << >>
    ELSE IF db.order[k] # category THEN db.jobs[k] \o other_jobs(db, category, k + 1)
    ELSE other_jobs(db, category, k + 1)

\* xs[:n]
Take(xs, n) == SubSeq(xs, 1, IF n < Len(xs) THEN n ELSE Len(xs))

\* the default of the num_jobs parameter
num_jobs == 3

\* the list jobs after "if len(jobs) < num_jobs: ... jobs.extend(all_jobs[:remaining_slots])"
extended_jobs(db, category, n) ==
    LET main == db_get(db, category)
        all_jobs == other_jobs(db, category, 1)
        remaining_slots == n - Len(main)
    IN  IF Len(main) < n /\ Len(all_jobs) > 0 /\ remaining_slots > 0
        THEN main \o Take(all_jobs, remaining_slots)
        ELSE main

\* return jobs[:num_jobs], for the category extracted
recommended_for(db, category, n) == Take(extended_jobs(db, category, n), n)

\* the list returned by get_recommended_jobs(user_messages, job_database, num_jobs)
get_recommended_jobs(user_messages, db, n) ==
    recommended_for(db, extract_job_category(user_messages), n)

\* the dict passed as job_database once the call has returned: jobs is the list
\* stored under the category, so extend() changes it in place; a missing key
\* yields a fresh list
database_after(db, category, n) ==
    IF has_key(db, category)
    THEN LET k == CHOOSE i \in 1..Len(db.order) : db.order[i] = category
         IN  [db EXCEPT !.jobs[k] = extended_jobs(db, category, n)]
    ELSE db

\* searchable_text without the skills
searchable_text_no_skills(job) ==
    Lower(job.title \o " " \o job.company \o " " \o job.location \o " ")

\* f"{job['title']} {job['company']} {job['location']} {' '.join(job['skills'])}".lower()
searchable_text(job) ==
    Lower(job.title \o " " \o job.company \o " " \o job.location \o " "
            \o Join(" ", job.skills))

RECURSIVE search_loop(_, _, _)
\* for job in all_jobs: if query in searchable_text: matches.append(job)
search_loop(all_jobs, query_lower, k) ==
    IF k > Len(all_jobs) THEN << >>
    ELSE IF Contains(searchable_text(all_jobs[k]), query_lower)
         THEN << all_jobs[k] >> \o search_loop(all_jobs, query_lower, k + 1)
         ELSE search_loop(all_jobs, query_lower, k + 1)

\* search_jobs(query, job_database, max_results)
search_jobs(q, db, max_results) ==
    Take(search_loop(all_jobs_of(db, 1), Lower(q), 1), max_results)

JobDatabases == { load_jobs_from_csv(TRUE, CsvRows), load_jobs_from_csv(FALSE, CsvRows) }

\* the database load_jobs_from_csv builds from each version of the CSV
JobDatabaseOf == [ rows \in Corpora \cup { CsvRows } |-> load_jobs_from_csv(TRUE, rows) ]

\* get_job_database(): load_jobs_from_csv() on the CSV as it is now
get_job_database(file_found, rows) ==
    IF file_found THEN JobDatabaseOf[rows] ELSE EmptyDatabase

(***************************************************************************)
(* frontend/app.py: the chat session                                       *)
(***************************************************************************)
MaxMsgs == 4

\* CONTEXT_OPTIONS[c]["welcome"], by its first sentence
CONTEXT_OPTIONS ==
    [ general    |-> "Hello! I'm Asha, your career companion.",
      jobs       |-> "I'll help you find your ideal career opportunity!",
      resume     |-> "Welcome to the Resume Builder!",
      interview  |-> "Let's prepare for your interviews!",
      mentorship |-> "Connecting you with mentors in your field." ]

resume_questions ==
    << "What is your full name?", "What is your email address?",
       "What is your phone number?", "What is your location (City, State/Country)?",
       "Please write a brief professional summary", "Please share your education details",
       "Please describe your work experience", "What are your key skills?" >>

\* a chat message: content is the text (for the assistant, the fixed head of the
\* template), shown the job dicts rendered into it
assistant_message(content, shown, metadata) ==
    [role |-> "assistant", content |-> content, shown |-> shown, metadata |-> metadata]

user_message(text, metadata) ==
    [role |-> "user", content |-> text, shown |-> << >>, metadata |-> metadata]

job_listings_metadata(js, pref) ==
    [type |-> "job_listings", jobs |-> js, user_preferences |-> pref]

\* the functions llm_service.py defines
llm_module_functions ==
    { "verify_api_key", "get_conversation_chain", "direct_generate_response",
      "format_structured_context", "generate_career_advice", "inject_context_into_memory",
      "is_followup_question", "generate_structured_job_response",
      "generate_course_recommendations", "is_career_question", "reset_conversation" }

\* the attributes get_llm_service reads from the module
llm_service_attributes ==
    { "generate_career_advice", "generate_course_recommendations",
      "generate_interview_resources", "is_career_question" }

\* get_llm_service()["available"]: a missing attribute raises inside the try
llm_available == llm_service_attributes \subseteq llm_module_functions

RECURSIVE extract_context_oldest(_, _)
\* the loop without its break: the last assignment, made at the oldest message, wins
extract_context_oldest(msgs, i) ==
    IF i < 1 THEN NoMeta
    ELSE LET older == extract_context_oldest(msgs, i - 1)
         IN  IF older # NoMeta THEN older
             ELSE IF msgs[i].role = "assistant" /\ msgs[i].metadata # NoMeta
                  THEN msgs[i].metadata
                  ELSE NoMeta

RECURSIVE extract_context(_, _)
\* for i in range(len(messages)-2, -1, -1): the nearest assistant message with metadata
extract_context(msgs, i) ==
    IF i < 1 THEN NoMeta
    ELSE IF msgs[i].role = "assistant" /\ msgs[i].metadata # NoMeta THEN msgs[i].metadata
    ELSE extract_context(msgs, i - 1)

\* format_job_listings without its "if not jobs" early return
format_job_listings_no_guard(js) ==
    "Here are some job opportunities that might interest you:"

\* the head of the text format_job_listings returns
format_job_listings(js) ==
    IF Len(js) = 0
    THEN "No matching jobs found at this time. Please try adjusting your search criteria."
    ELSE "Here are some job opportunities that might interest you:"

\* the matching condition of the jobs tab follow-up for one job
app_job_matches(job, user_input_lower) ==
    LET job_title == Lower(job.title)
        job_company == Lower(job.company)
        company_parts == Split(job_company)
        title_words == Split(job_title)
    IN  \/ (Contains(user_input_lower, job_title) /\ Contains(user_input_lower, job_company))
        \/ Contains(user_input_lower, job_title \o " at " \o job_company)
        \/ (Contains(user_input_lower, job_title)
              /\ \E p \in 1..Len(company_parts) : Contains(user_input_lower, company_parts[p]))
        \/ ((\E w \in 1..Len(title_words) : Contains(user_input_lower, title_words[w]))
              /\ Contains(user_input_lower, job_company))

RECURSIVE app_matching_loop(_, _, _)
\* for job in job_listings: if <match>: selected_job = job; break  (0 for None)
app_matching_loop(job_listings, user_input_lower, k) ==
    IF k > Len(job_listings) THEN 0
    ELSE IF app_job_matches(job_listings[k], user_input_lower) THEN k
    ELSE app_matching_loop(job_listings, user_input_lower, k + 1)

JobSummary == "This looks like a great match for your experience!"
ApplicationTips == "Application Tips"
GreatJobs == "Those are great jobs to consider!"
LlmResponse == "generate_career_advice"

\* a follow-up about the job listings already shown
followup_reply(text, ctx) ==
    LET user_input_lower == Lower(text)
        job_listings == ctx.jobs
        selected == app_matching_loop(job_listings, user_input_lower, 1)
    IN  IF selected # 0
        THEN [content |-> IF llm_available THEN LlmResponse ELSE JobSummary,
              shown |-> << job_listings[selected] >>, attach |-> NoMeta]
        ELSE IF \/ Contains(user_input_lower, "application")
                \/ Contains(user_input_lower, "apply")
                \/ Contains(user_input_lower, "resume")
        THEN [content |-> ApplicationTips, shown |-> << >>, attach |-> NoMeta]
        ELSE [content |-> IF llm_available THEN LlmResponse ELSE GreatJobs,
              shown |-> << >>, attach |-> NoMeta]

job_search_keywords ==
    << "looking for", "interested in", "searching for", "find", "seeking", "hunting",
       "need a job", "want a job", "job in" >>

BasedOnYourInterest(text) == "Based on your interest in " \o text

\* the fallback of the except clause: simple job recommendations
fallback_reply(msgs, db) ==
    LET recommended_jobs == get_recommended_jobs(msgs, db, num_jobs)
    IN  [content |-> format_job_listings(recommended_jobs), shown |-> recommended_jobs,
         attach |-> NoMeta]

\* no job listings in context: a search for jobs, or the default recommendations;
\* attach is what line 852 stores under messages[-1]["metadata"]
search_reply(text, msgs, db, rag, search_raises) ==
    IF ContainsAny(Lower(text), job_search_keywords)
    THEN IF rag /\ search_raises
         THEN fallback_reply(msgs, db)
         ELSE LET recommended_jobs ==
                      get_recommended_jobs(Append(msgs, user_message(text, NoMeta)), db, num_jobs)
              IN  [content |-> BasedOnYourInterest(text), shown |-> recommended_jobs,
                   attach |-> job_listings_metadata(recommended_jobs, text)]
    ELSE LET recommended_jobs == get_recommended_jobs(msgs, db, num_jobs)
         IN  [content |-> format_job_listings(recommended_jobs), shown |-> recommended_jobs,
              attach |-> NoMeta]

\* the turn reaches rag["search"](query=user_input)
search_called(text, ctx, rag) ==
    /\ ~(ctx # NoMeta /\ ctx.type = "job_listings")
    /\ ContainsAny(Lower(text), job_search_keywords)
    /\ rag

\* if st.session_state.context == "jobs": ...
jobs_reply(text, msgs, ctx, db, rag, search_raises) ==
    IF ctx # NoMeta /\ ctx.type = "job_listings"
    THEN followup_reply(text, ctx)
    ELSE search_reply(text, msgs, db, rag, search_raises)

GeneralFallback == "I'm sorry, but my advanced response service is currently unavailable."
InterviewFallback == "I'm happy to help with interview preparation!"
MentorshipFallback == "Finding the right mentor can be transformative for your career!"
ResumeHelp == "For resume help, I recommend:"
ResumeCreated == "Great! I've created your resume based on the information you provided."
ResumeError == "I encountered an error while generating your resume"

\* str(e) of the exception a failed request raises
ErrorTexts ==
    { "429 quota exceeded",
      "503 The model is overloaded. Please try again later. request id 7f3a9c" }

resume_fields ==
    << "name", "email", "phone", "location", "summary", "education", "experience", "skills" >>

\* what the user answers to a resume question
ResumeAnswers == { "Asha Rao" }

\* the reply of the resume branch when generate_resume_content or create_pdf_resume
\* raises, with the reply text left unset
resume_failure_unset(err) == NoValue

\* except Exception as e: response = f"... generating your resume: {str(e)}. Please ..."
resume_failure(err) ==
    ResumeError \o ": " \o err \o ". Please try again with more complete information."

\* elif st.session_state.context == "resume": the reply and the resume builder state
\* err is str(e) of the exception resume generation raises, NoValue if it succeeds
resume_reply(text, mode, question, info, err) ==
    IF mode
    THEN LET stored == [info EXCEPT ![resume_fields[question + 1]] = text]
         IN  IF question + 1 < Len(resume_questions)
             THEN [content |-> "Thanks! " \o resume_questions[question + 2],
                   resume_mode |-> TRUE, current_question |-> question + 1,
                   user_info |-> stored]
             ELSE [content |-> IF err = NoValue THEN ResumeCreated ELSE resume_failure(err),
                   resume_mode |-> FALSE, current_question |-> question + 1,
                   user_info |-> stored]
    ELSE IF ContainsAny(Lower(text), << "resume", "build", "cv", "create" >>)
         THEN [content |-> "Great! I'll help you build your resume. " \o resume_questions[1],
               resume_mode |-> TRUE, current_question |-> 0, user_info |-> info]
         ELSE [content |-> IF llm_available THEN LlmResponse ELSE ResumeHelp,
               resume_mode |-> mode, current_question |-> question, user_info |-> info]

\* what the user types into the chat input
AppInputs ==
    { "yes", "looking for marketing jobs", "tell me about backend developer at acme",
      "how do I apply", "create resume" }

AppInit ==
    /\ show_login = TRUE
    /\ user_id = NoValue
    /\ messages = << >>
    /\ saved_chat = << >>
    /\ session_context = "general"
    /\ resume_mode = FALSE
    /\ current_question = 0 /\ user_info = EmptyUserInfo /\ api_key = NoValue
    /\ job_database \in JobDatabases
    /\ rag_available \in BOOLEAN
    /\ user_input = NoValue
    /\ context = NoMeta
    /\ query = NoValue
    /\ EnhIdle
    /\ ResIdle
    /\ SvcIdle
    /\ corpus = CsvRows /\ changes = 0
    /\ emb_file = << >> /\ chunks_file = << >> /\ index_file = << >>
    /\ file_status = FilesReadable
    /\ loaded = FALSE /\ index = << >> /\ job_chunks = << >>
    /\ top_k = 0 /\ indices = << >> /\ results = << >> /\ raised = NoValue

\* the login form is submitted: the saved chat is loaded, or the welcome shown
Login ==
    /\ show_login
    /\ show_login' = FALSE
    /\ user_id' = "user"
    /\ messages' = IF Len(saved_chat) > 0 THEN saved_chat
                   ELSE << assistant_message(CONTEXT_OPTIONS[session_context], << >>, NoMeta) >>
    /\ user_input' = NoValue
    /\ context' = NoMeta
    /\ UNCHANGED <<saved_chat, session_context, resume_mode, current_question, user_info,
                   api_key, job_database,
                   rag_available, query, enhVars, resVars, srchVars, svcVars>>

\* a tab button that appends the welcome of its context
WelcomeTab(tab) ==
    /\ ~show_login /\ user_id # NoValue
    /\ Len(messages) + 1 <= MaxMsgs
    /\ session_context' = tab
    /\ messages' = Append(messages, assistant_message(CONTEXT_OPTIONS[tab], << >>, NoMeta))
    /\ saved_chat' = messages'
    /\ user_input' = NoValue
    /\ context' = NoMeta
    /\ UNCHANGED <<show_login, user_id, job_database, rag_available,
                   query, enhVars, resVars, srchVars, svcVars>>

GeneralTab == WelcomeTab("general") /\ UNCHANGED <<resume_mode, current_question, user_info,
                                                   api_key>>

\* the message the Jobs tab appends for a recommendation list
jobs_tab_message(js) ==
    assistant_message("Here are the top 3 jobs matching your profile:", js,
                      job_listings_metadata(js, NoValue))

\* the top 3 jobs are shown and stored with metadata for context
JobsClick(max_messages) ==
    /\ ~show_login /\ user_id # NoValue
    /\ Len(messages) + 1 <= max_messages
    /\ session_context' = "jobs"
    /\ LET recommended_jobs == get_recommended_jobs(messages, job_database, num_jobs)
       IN  messages' = Append(messages, jobs_tab_message(recommended_jobs))
    /\ saved_chat' = messages'
    /\ user_input' = NoValue
    /\ context' = NoMeta
    /\ UNCHANGED <<show_login, user_id, resume_mode, current_question, user_info, api_key,
                   job_database,
                   rag_available, query, enhVars, resVars, srchVars, svcVars>>

JobsTab == JobsClick(MaxMsgs)

ResumeTab ==
    /\ WelcomeTab("resume")
    /\ resume_mode' = FALSE
    /\ current_question' = 0
    /\ user_info' = EmptyUserInfo
    /\ UNCHANGED api_key

InterviewTab == WelcomeTab("interview") /\ UNCHANGED <<resume_mode, current_question,
                                                       user_info, api_key>>

MentorshipTab == WelcomeTab("mentorship") /\ UNCHANGED <<resume_mode, current_question,
                                                         user_info, api_key>>

ClearChatHistory ==
    /\ ~show_login /\ user_id # NoValue
    /\ messages' = << assistant_message(CONTEXT_OPTIONS[session_context], << >>, NoMeta) >>
    /\ saved_chat' = messages'
    /\ user_input' = NoValue
    /\ context' = NoMeta
    /\ UNCHANGED <<show_login, user_id, session_context, resume_mode, current_question,
                   user_info, api_key,
                   job_database, rag_available, query, enhVars, resVars, srchVars, svcVars>>

\* get_job_database.clear(); JOB_DATABASE = get_job_database()
RefreshJobDatabase ==
    /\ ~show_login /\ user_id # NoValue
    /\ \E file_found \in BOOLEAN : job_database' = get_job_database(file_found, corpus)
    /\ user_input' = NoValue
    /\ context' = NoMeta
    /\ UNCHANGED <<show_login, user_id, messages, saved_chat, session_context, resume_mode,
                   current_question, user_info, api_key, rag_available, query, enhVars,
                   resVars, srchVars, svcVars>>

\* a reply that drops all but the first job of the context it answers
response_metadata_first_job(session, ctx) ==
    IF session = "jobs" /\ ctx # NoMeta /\ ctx.type = "job_listings"
    THEN job_listings_metadata(SubSeq(ctx.jobs, 1, 1), NoValue)
    ELSE NoMeta

\* preserve metadata when this is a job-related response
response_metadata(session, ctx) ==
    IF session = "jobs" /\ ctx # NoMeta /\ ctx.type = "job_listings"
    THEN job_listings_metadata(ctx.jobs, NoValue)
    ELSE NoMeta

\* if user_input: the whole handler, from the append of the user message to the
\* append of response_msg and the save
UserTurn(max_messages) ==
    /\ ~show_login /\ user_id # NoValue
    /\ Len(messages) + 2 <= max_messages
    /\ \E text \in (IF session_context = "resume" /\ resume_mode THEN ResumeAnswers
                    ELSE AppInputs),
          \* rag["search"] is called in the jobs context only, the resume is
          \* generated after the last answer only
          search_raises \in (IF session_context = "jobs" /\ rag_available THEN BOOLEAN
                             ELSE { FALSE }),
          resume_err \in (IF /\ session_context = "resume" /\ resume_mode
                             /\ current_question + 1 = Len(resume_questions)
                          THEN ErrorTexts \cup { NoValue } ELSE { NoValue }) :
         LET with_user == Append(messages, user_message(text, NoMeta))
             ctx == extract_context(with_user, Len(with_user) - 1)
             jobs_turn == jobs_reply(text, with_user, ctx, job_database, rag_available,
                                     search_raises)
             resume_turn == resume_reply(text, resume_mode, current_question, user_info,
                                         resume_err)
             content ==
                 IF session_context = "general"
                 THEN (IF llm_available THEN LlmResponse ELSE GeneralFallback)
                 ELSE IF session_context = "jobs" THEN jobs_turn.content
                 ELSE IF session_context = "resume" THEN resume_turn.content
                 ELSE IF session_context = "interview"
                 THEN (IF llm_available THEN LlmResponse ELSE InterviewFallback)
                 ELSE (IF llm_available THEN LlmResponse ELSE MentorshipFallback)
             shown == IF session_context = "jobs" THEN jobs_turn.shown ELSE << >>
             attach == IF session_context = "jobs" THEN jobs_turn.attach ELSE NoMeta
             \* st.session_state.messages[-1]["metadata"] = {...}
             after_attach == [with_user EXCEPT ![Len(with_user)].metadata = attach]
             response_msg == assistant_message(content, shown,
                                               response_metadata(session_context, ctx))
         IN  /\ messages' = Append(after_attach, response_msg)
             /\ saved_chat' = messages'
             /\ user_input' = text
             /\ context' = ctx
             /\ resume_mode' = IF session_context = "resume" THEN resume_turn.resume_mode
                               ELSE resume_mode
             /\ current_question' = IF session_context = "resume"
                                    THEN resume_turn.current_question
                                    ELSE current_question
             /\ user_info' = IF session_context = "resume" THEN resume_turn.user_info
                             ELSE user_info
             \* job_context = rag["search"](query=user_input)
             /\ top_k' = IF session_context = "jobs" /\ search_called(text, ctx, rag_available)
                         THEN 3 ELSE 0
    /\ UNCHANGED <<show_login, user_id, session_context, job_database, rag_available,
                   api_key, query, enhVars, resVars, fileVars, ragVars, indices, results, raised,
                   svcVars>>

ProcessUserInput == UserTurn(MaxMsgs)

AppNext ==
    \/ Login
    \/ GeneralTab
    \/ JobsTab
    \/ ResumeTab
    \/ InterviewTab
    \/ MentorshipTab
    \/ ClearChatHistory
    \/ RefreshJobDatabase
    \/ ProcessUserInput

SpecApp == AppInit /\ [][AppNext]_vars

\* get_rag_service reporting the service available whatever the import did
get_rag_service_always_available(fs) == [available |-> TRUE, error |-> NoValue]

\* get_rag_service: the import of rag_service inside try/except
get_rag_service(fs) ==
    IF rag_module_loads(fs) THEN [available |-> TRUE, error |-> NoValue]
    ELSE [available |-> FALSE, error |-> "could not load rag_service"]

\* the state of the two artifacts when the process starts
FileStatuses == [index : { "ok", "missing" }, chunks : { "ok", "corrupt" }]

\* the app process has started: get_rag_service() has run once (its result is kept
\* by st.cache_resource) on whatever the data directory held
StartupInit ==
    /\ file_status \in FileStatuses
    /\ corpus = CsvRows /\ changes = 0
    /\ emb_file = embeddings_of(texts_of(corpus))
    /\ chunks_file = IF file_status.chunks = "ok" THEN texts_of(corpus) ELSE << >>
    /\ index_file = IF file_status.index = "ok" THEN emb_file ELSE << >>
    /\ rag_available = get_rag_service(file_status).available
    /\ loaded = rag_module_loads(file_status)
    /\ index = IF loaded THEN index_file ELSE << >>
    /\ job_chunks = IF loaded THEN chunks_file ELSE << >>
    /\ top_k = 0 /\ indices = << >> /\ results = << >> /\ raised = NoValue
    /\ job_database = get_job_database(TRUE, corpus)
    /\ show_login = TRUE
    /\ user_id = NoValue
    /\ messages = << >>
    /\ saved_chat = << >>
    /\ session_context = "general"
    /\ resume_mode = FALSE
    /\ current_question = 0 /\ user_info = EmptyUserInfo /\ api_key = NoValue
    /\ user_input = NoValue
    /\ context = NoMeta
    /\ query = NoValue
    /\ EnhIdle
    /\ ResIdle
    /\ SvcIdle

\* the session of a user of that process
StartupNext ==
    \/ Login
    \/ GeneralTab
    \/ JobsTab
    \/ ResumeTab
    \/ InterviewTab
    \/ MentorshipTab
    \/ ClearChatHistory
    \/ ProcessUserInput

SpecStartup == StartupInit /\ [][StartupNext]_vars

\* follow-up handling as a whole: llm_service called on its own, or the chat session
FollowUpInit == ResInit \/ AppInit

FollowUpNext == ResNext \/ AppNext

SpecFollowUp == FollowUpInit /\ [][FollowUpNext]_vars

\* the reply of the turn just processed
Reply == messages[Len(messages)]

\* the assistant contents that render a list of recommended jobs
ListingContents ==
    { "Here are the top 3 jobs matching your profile:",
      "Here are some job opportunities that might interest you:" }
    \cup { BasedOnYourInterest(text) : text \in AppInputs }

\* the job list the latest message shows to the user, << >> if it shows none
NewlyShown ==
    IF /\ Len(messages) > 0
       /\ Reply.role = "assistant"
       /\ Reply.content \in ListingContents
    THEN Reply.shown
    ELSE << >>

\* the CandidateSet the next user turn resolves: what its context extraction finds
NextCandidateSet == extract_context(messages, Len(messages))

\* C4: with no active CandidateSet, or an empty one, follow-up handling selects no
\* job: generate_structured_job_response called with an empty list selects nothing
\* and returns the job search assistance text, and a turn in the jobs context
\* always ends with a reply that is generic or a fresh recommendation, never the
\* detail view of a job.
C4_NoCandidateSetNoJob ==
    /\ (response # NoValue /\ Len(jobs) = 0)
          => /\ selected_job = 0
             /\ branch = "no jobs"
             /\ response = "Job Search Assistance"
    /\ (user_input # NoValue /\ session_context = "jobs" /\ Len(context.jobs) = 0)
          => /\ Reply.role = "assistant"
             /\ Reply.content \in (ListingContents
                                     \cup { ApplicationTips, GreatJobs,
                                            format_job_listings(<< >>) })
             /\ Reply.content # JobSummary
             /\ \/ Reply.shown = << >>
                \/ Reply.content \in ListingContents

\* a turn in the jobs context whose active CandidateSet is empty has been answered
C4_Witness ==
    /\ user_input # NoValue
    /\ session_context = "jobs"
    /\ context.type = "job_listings"
    /\ context.jobs = << >>
    /\ Reply.content = GreatJobs

\* C5: whenever the latest message shows a new list of jobs (Jobs tab, job search
\* query or default recommendations), the context extraction of the next user
\* turn finds exactly that list.
C5_ShownListIsNextCandidateSet ==
    Len(NewlyShown) > 0
       => /\ NextCandidateSet.type = "job_listings"
          /\ NextCandidateSet.jobs = NewlyShown

(***************************************************************************)
(* One running app process, the data files and the refresh button          *)
(***************************************************************************)
\* the process has started: get_rag_service imported rag_service and
\* get_job_database loaded the CSV
RefreshInit ==
    /\ corpus \in Corpora
    /\ changes = 0
    /\ chunks_file = texts_of(corpus)
    /\ emb_file = embeddings_of(texts_of(corpus))
    /\ index_file = emb_file
    /\ file_status = FilesReadable
    /\ loaded = TRUE /\ index = index_file /\ job_chunks = chunks_file
    /\ top_k = 0 /\ indices = << >> /\ results = << >> /\ raised = NoValue
    /\ rag_available = TRUE
    /\ job_database = get_job_database(TRUE, corpus)
    /\ show_login = TRUE /\ user_id = NoValue /\ messages = << >> /\ saved_chat = << >>
    /\ session_context = "general" /\ resume_mode = FALSE /\ current_question = 0
    /\ user_info = EmptyUserInfo /\ api_key = NoValue
    /\ user_input = NoValue /\ context = NoMeta
    /\ query = NoValue
    /\ EnhIdle
    /\ ResIdle
    /\ SvcIdle

RefreshNext ==
    \/ ChangeCorpus
    \/ generate_embeddings
    \/ build_index
    \/ Login
    \/ RefreshJobDatabase

SpecRefresh == RefreshInit /\ [][RefreshNext]_vars

\* C11: a click on "Refresh Job Database" leaves the process with the job database
\* loaded from the current CSV and with the index and chunk array of the current
\* index and chunk files.
C11_RefreshSwapsCorpusAndIndex ==
    [][RefreshJobDatabase =>
          /\ job_database' \in { get_job_database(file_found, corpus') : file_found \in BOOLEAN }
          /\ index' = index_file'
          /\ job_chunks' = chunks_file']_vars

(***************************************************************************)
(* jobs_reco functions called on their own                                 *)
(***************************************************************************)
MaxHistory == 2     \* messages of a chat history
MaxNumJobs == 3     \* num_jobs and max_results arguments
MaxCalls == 2       \* calls made on one job database

\* contents of chat messages
RecoContents ==
    { "hello", "python developer", "looking for marketing jobs", "finance hiring" }

RecoMessages ==
    { user_message(c, NoMeta) : c \in RecoContents }
    \cup { assistant_message("marketing campaign", << >>, NoMeta) }

RecoHistories == SeqsUpTo(RecoMessages, MaxHistory)

\* extract_job_category on each history
CategoryOf == [ user_messages \in RecoHistories |-> extract_job_category(user_messages) ]

\* job databases as load_jobs_from_csv builds them
RecoDatabases ==
    { get_job_database(file_found, rows) :
         file_found \in BOOLEAN, rows \in { CsvRows, << CsvRows[1], CsvRows[3] >> } }

RecoInit ==
    /\ reco_call = NoRecoCall
    /\ LlmIdle
    /\ job_database \in RecoDatabases
    /\ show_login = FALSE /\ user_id = NoValue /\ messages = << >> /\ saved_chat = << >>
    /\ session_context = "general" /\ resume_mode = FALSE /\ current_question = 0
    /\ user_info = EmptyUserInfo /\ api_key = NoValue
    /\ rag_available = FALSE /\ user_input = NoValue /\ context = NoMeta
    /\ query = NoValue
    /\ EnhIdle
    /\ ResIdle
    /\ SrchIdle

recoUnchanged == <<query, enhVars, resVars, srchVars, show_login, user_id, messages, saved_chat,
                   session_context, resume_mode, current_question, user_info, api_key,
                   rag_available, user_input,
                   context, llmVars>>

ExtractJobCategory ==
    /\ reco_call.calls < MaxCalls
    /\ \E user_messages \in RecoHistories :
         reco_call' = [fn |-> "extract_job_category", calls |-> reco_call.calls + 1,
                       user_messages |-> user_messages,
                       ret |-> CategoryOf[user_messages]]
    /\ UNCHANGED <<job_database, recoUnchanged>>

\* get_recommended_jobs(user_messages, job_database, num_jobs) on the database at
\* hand; the record keeps the database as it was passed
GetRecommendedJobs ==
    /\ reco_call.calls < MaxCalls
    /\ \E user_messages \in { h \in RecoHistories : Len(h) <= 1 }, n \in 1..MaxNumJobs :
         LET category == CategoryOf[user_messages]
         IN  /\ reco_call' = [fn |-> "get_recommended_jobs", calls |-> reco_call.calls + 1,
                              user_messages |-> user_messages,
                              job_database |-> job_database,
                              num_jobs |-> n,
                              ret |-> recommended_for(job_database, category, n)]
             /\ job_database' = database_after(job_database, category, n)
    /\ UNCHANGED recoUnchanged

\* what is typed into a job search
SearchJobQueries == { "developer", "ACME", "mumbai", "Python", "", "remote work" }

SearchJobs ==
    /\ reco_call.calls < MaxCalls
    /\ \E q \in SearchJobQueries, max_results \in 1..MaxNumJobs :
         reco_call' = [fn |-> "search_jobs", calls |-> reco_call.calls + 1,
                       query |-> q,
                       job_database |-> job_database,
                       max_results |-> max_results,
                       ret |-> search_jobs(q, job_database, max_results)]
    /\ UNCHANGED <<job_database, recoUnchanged>>

\* format_job_listings on a list of jobs taken from the database
FormatJobListings ==
    /\ reco_call.calls < MaxCalls
    /\ \E n \in 0..MaxNumJobs :
         LET js == Take(all_jobs_of(job_database, 1), n)
         IN  reco_call' = [fn |-> "format_job_listings", calls |-> reco_call.calls + 1,
                           jobs |-> js,
                           ret |-> format_job_listings(js)]
    /\ UNCHANGED <<job_database, recoUnchanged>>

RecoNext ==
    \/ ExtractJobCategory
    \/ GetRecommendedJobs
    \/ SearchJobs
    \/ FormatJobListings

SpecReco == RecoInit /\ [][RecoNext]_vars

\* the lower-cased text of the user messages of a history
ChatText(user_messages) == Lower(Join(" ", user_contents(user_messages, 1)))

\* C12: extract_job_category returns "tech" when every score is zero, otherwise
\* the first category, in the order tech, marketing, finance, hr, whose score is
\* the maximum.
C12_FirstMaximumOrTech ==
    reco_call.fn = "extract_job_category" =>
       LET score(k) == category_score(ChatText(reco_call.user_messages), category_order[k])
           order == 1..Len(category_order)
       IN  /\ category_order = << "tech", "marketing", "finance", "hr" >>
           /\ IF \A k \in order : score(k) = 0
              THEN reco_call.ret = "tech"
              ELSE \E k \in order :
                      /\ reco_call.ret = category_order[k]
                      /\ \A j \in order : score(j) <= score(k)
                      /\ \A j \in 1..(k - 1) : score(j) < score(k)

\* finance and hr share the maximum and finance was returned
C12_Witness ==
    /\ reco_call.fn = "extract_job_category"
    /\ LET text == ChatText(reco_call.user_messages)
       IN  /\ category_score(text, "finance") = category_score(text, "hr")
           /\ category_score(text, "finance") > 0
           /\ category_score(text, "tech") = 0
           /\ category_score(text, "marketing") = 0
    /\ reco_call.ret = "finance"

SearchText(job) ==
    Lower(job.title) \o " " \o Lower(job.company) \o " " \o Lower(job.location) \o " "
        \o Lower(Join(" ", job.skills))

\* C14: search_jobs returns, in the order of the flattened database, the first
\* max_results jobs whose lower-cased text contains the lower-cased query.
C14_FirstMatchesInOrder ==
    reco_call.fn = "search_jobs" =>
       LET q == Lower(reco_call.query)
           Matching(job) == Contains(SearchText(job), q)
           matching == SelectSeq(all_jobs_of(reco_call.job_database, 1), Matching)
       IN  /\ reco_call.ret = Take(matching, reco_call.max_results)
           /\ Len(reco_call.ret) <= reco_call.max_results
           /\ \A i \in 1..Len(reco_call.ret) : Matching(reco_call.ret[i])

\* a capitalised query matched a job by one of its skills
C14_Witness ==
    /\ reco_call.fn = "search_jobs"
    /\ reco_call.query = "Python"
    /\ reco_call.max_results = 1
    /\ Len(reco_call.ret) = 1
    /\ Contains(SearchText(reco_call.ret[1]), Lower(reco_call.query))

\* C15: format_job_listings called with an empty list returns the fixed
\* "no matching jobs" message, which is not the empty string.
C15_EmptyListMessage ==
    (reco_call.fn = "format_job_listings" /\ Len(reco_call.jobs) = 0) =>
       /\ reco_call.ret = "No matching jobs found at this time. Please try adjusting your search criteria."
       /\ Len(reco_call.ret) > 0

\* format_job_listings has returned for an empty list
C15_Witness ==
    /\ reco_call.fn = "format_job_listings"
    /\ reco_call.jobs = << >>
    /\ reco_call.ret # ""

\* the heading of the response returned, for the job selected
Heading == section_heading(response, jobs[selected_job])

\* C16: with the candidate set [Backend Developer at Acme, Marketing Lead at
\* Brandify] and the query "tell me about backend developer at acme" the Acme job
\* is selected and the general overview is rendered, headed by its title and company.
C16_OverviewOfAcmeJob ==
    (/\ response # NoValue
     /\ query = "tell me about backend developer at acme"
     /\ jobs = << job_dict(CsvRows[1]), job_dict(CsvRows[3]) >>)
       => /\ selected_job = 1
          /\ response = "Job Overview"
          /\ Heading = "Backend Developer at Acme"

\* the keyword groups in the order application, salary, skills, company, interview
KeywordGroups ==
    << application_keywords, salary_keywords, skills_keywords, company_keywords,
       interview_keywords >>

TemplateNames ==
    << "Application Guide", "Compensation Information", "Skills & Requirements",
       "Company Profile", "Interview Preparation" >>

\* some keyword of group k occurs in the lower-cased query
GroupHit(k, q) == \E w \in 1..Len(KeywordGroups[k]) : Contains(Lower(q), KeywordGroups[k][w])

\* C17: for a non-empty candidate set the template rendered is that of the first
\* keyword group with a keyword in the lower-cased query, the general overview
\* when no group has one, and it is rendered for the job selected.
C17_FirstKeywordGroupTemplate ==
    (response # NoValue /\ Len(jobs) > 0) =>
       /\ selected_job \in 1..Len(jobs)
       /\ IF \E k \in 1..5 : GroupHit(k, query)
          THEN \E k \in 1..5 : /\ GroupHit(k, query)
                               /\ \A j \in 1..(k - 1) : ~GroupHit(j, query)
                               /\ response = TemplateNames[k]
          ELSE response = "Job Overview"
       /\ Contains(Heading, jobs[selected_job].company)

\* a query with keywords of the application and the salary group got the
\* application guide
C17_Witness ==
    /\ response = "Application Guide"
    /\ Len(jobs) > 0
    /\ GroupHit(1, query)
    /\ GroupHit(2, query)

(***************************************************************************)
(* llm_service.py: API key verification, the process-wide conversation     *)
(* memory, career-question classification and generate_career_advice       *)
(***************************************************************************)
MaxAdviceCalls == 2     \* calls of the service functions in one behaviour

\* a message of memory.chat_memory.messages.  conv is not part of the Python
\* object: it records the conversation whose call appended the message
human_message(content, conv) == [role |-> "human", content |-> content, conv |-> conv]
ai_message(content, conv) == [role |-> "ai", content |-> content, conv |-> conv]

\* what the Gemini service does with one request
ServiceOutcomes == { "ok", "no text", "raise" }

\* response.text / chain.predict(...) of a request that succeeds
GeneratedReply == "### Career Advice: build a portfolio of your work. "

ConnectionIssue ==
    "### Connection Issue: I'm experiencing connectivity issues. Please check your API key configuration."
ResponseGenerationIssue ==
    "### Response Generation Issue: I couldn't generate a response at this time."
CareerFocusReminder ==
    "### Career Focus Reminder: I'm designed to assist with career-related questions"
GeneralCareerAdvice ==
    "### Technical Difficulty: I'm experiencing technical difficulties. Here's some general career advice:"

\* s[:n]
Prefix(s, n) == IF Len(s) <= n THEN s ELSE SubSeq(s, 1, n)

\* the text of the except branch of direct_generate_response before str(e)[:50]
TechnicalDifficultyHead ==
    "### Technical Difficulty: I encountered an issue with the response generation. **Error:** "

\* the except branch of direct_generate_response, with the whole of str(e)
TechnicalDifficulty_full_error(e) == TechnicalDifficultyHead \o e \o "..."

\* the except branch of direct_generate_response
TechnicalDifficulty(e) == TechnicalDifficultyHead \o Prefix(e, 50) \o "..."

\* verify_api_key: the value returned and api_key_verified afterwards
verify_api_key(key, verified, outcome) ==
    IF key = NoValue THEN [ret |-> FALSE, verified |-> verified]
    ELSE IF verified THEN [ret |-> TRUE, verified |-> TRUE]
    ELSE IF outcome = "ok" THEN [ret |-> TRUE, verified |-> TRUE]
    ELSE [ret |-> FALSE, verified |-> verified]

\* get_conversation_chain: chain is FALSE for None
get_conversation_chain(key, verified, o) ==
    LET v == verify_api_key(key, verified, o.verify)
    IN  IF ~v.ret THEN [chain |-> FALSE, verified |-> v.verified]
        ELSE [chain |-> (o.create = "ok"), verified |-> v.verified]

\* direct_generate_response: the value returned, the memory and api_key_verified
\* afterwards, the memory messages put into the prompt and the str(e) handled
direct_generate_response(q, ctx, mem, key, verified, o, conv) ==
    LET v == verify_api_key(key, verified, o.verify_direct)
    IN  IF ~v.ret
        THEN [ret |-> ConnectionIssue, memory |-> mem, verified |-> v.verified,
              prompt |-> << >>, err |-> NoValue, raised |-> NoValue]
        ELSE IF o.direct = "ok"
        THEN [ret |-> GeneratedReply,
              memory |-> mem \o << human_message(q, conv), ai_message(GeneratedReply, conv) >>,
              verified |-> v.verified, prompt |-> mem, err |-> NoValue, raised |-> NoValue]
        ELSE IF o.direct = "no text"
        THEN [ret |-> ResponseGenerationIssue, memory |-> mem, verified |-> v.verified,
              prompt |-> mem, err |-> NoValue, raised |-> NoValue]
        ELSE [ret |-> TechnicalDifficulty(o.err), memory |-> mem, verified |-> v.verified,
              prompt |-> mem, err |-> o.err, raised |-> NoValue]

\* job_titles[k] if len(job_titles) > k else 'N/A'
job_title_line(js, k) ==
    IF Len(js) >= k THEN js[k].title \o " at " \o js[k].company ELSE "N/A"

JobsCurrentlyDiscussing(js) ==
    "### Jobs Currently Discussing: " \o job_title_line(js, 1) \o "; "
        \o job_title_line(js, 2) \o "; " \o job_title_line(js, 3)

YourJobPreferences(pref) ==
    "### Your Job Preferences: You've mentioned interest in: **" \o pref \o "**"

\* inject_context_into_memory: the memory afterwards
inject_context_into_memory(ctx, mem, conv) ==
    IF ctx.type = "job_listings" /\ ctx.jobs # << >>
    THEN mem \o << ai_message(JobsCurrentlyDiscussing(ctx.jobs), conv) >>
             \o (IF ctx.user_preferences # NoValue
                 THEN << ai_message(YourJobPreferences(ctx.user_preferences), conv) >>
                 ELSE << >>)
    ELSE mem

followup_phrases ==
    << "tell me more", "more information", "more details", "explain further",
       "elaborate", "about this", "about that", "more about", "what else",
       "go on", "continue", "and then", "what about", "how about", "can you explain",
       "yes", "interested", "sounds good", "great", "ok", "okay", "sure",
       "why", "how", "when", "where", "who", "which one", "please", "thanks" >>

is_followup_question(q) ==
    LET is_short == Len(Split(q)) <= 8
        has_followup_phrase == ContainsAny(Lower(q), followup_phrases)
    IN  is_short \/ has_followup_phrase

\* job_interest_phrases (adjacent literals without a comma are one string)
job_interest_phrases ==
    << "interested in", "tell me more about", "more about the", "like to know more",
       "want to apply", "how to apply", "yes", "please", "sure", "sounds good",
       "like the", "would like", "about this job", "about that job", "about the position",
       "want to learn", "job description", "requirements", "qualifications", "salary",
       "sounds interesting", "company", "location", "remote", "hybrid", "onsite",
       "prepare for", "apply for", "perfect", "good fit", "skills neededwant to apply",
       "how to apply", "yes", "please", "sure", "sounds good" >>

\* relevant_topics: the keyword lists of its topics, in dict order
relevant_topics ==
    << "career", "profession", "professional", "growth", "advance", "progress", "path",
       "trajectory", "promotion", "transition", "pivot", "change", "switch", "move",
       "advancement", "aspiration", "goal", "objective", "ambition", "direction",
       "success", "industry", "field", "sector", "domain", "area", "discipline",
       "specialtytrajectory", "promotion", "transition", "pivot", "change", "switch",
       "job", "work", "employ", "position", "role", "opening", "vacancy", "hiring",
       "application", "apply", "workplace", "company", "organization", "corporation",
       "enterprise", "firm", "business", "startup", "remote", "hybrid", "virtual",
       "office", "job market", "job board", "job site", "job portal", "job platform",
       "job opportunity", "job listing", "job posting", "job offer", "opportunity",
       "prospect", "opening", "salary", "compensation", "pay", "wage", "income",
       "earning", "remuneration", "stipend", "benefit", "bonus", "raise", "increment",
       "hike", "stock", "equity", "option", "esop", "negotiate", "bargain", "discussion",
       "package", "offer", "counter-offer", "moneyapplication", "apply", "workplace",
       "company", "organization", "remote", "hybrid", "experience", "background",
       "history", "track record", "qualification", "credential", "achievement",
       "accomplishment", "education", "degree", "diploma", "certification", "certificate",
       "training", "skill", "competency", "ability", "capability", "expertise",
       "proficiency", "mastery", "strength", "talent", "aptitude", "flair",
       "documentresume", "cv", "curriculum vitae", "bio", "portfolio", "profile",
       "experience", "background", "history", "qualification", "credential", "interview",
       "recruiter", "hiring manager", "talent acquisition", "hr", "human resources",
       "question", "answer", "preparation", "behavioral", "technical", "screening",
       "assessment", "evaluation", "round", "stage", "phase", "onsite", "offsite",
       "phone screen", "video call", "panel", "one-on-one", "group", "case study",
       "presentation", "test", "quiz", "challenge", "mentor", "guide", "coach", "advice",
       "guidance", "support", "recommendation", "suggestion", "feedback", "networking",
       "connection", "contact", "referral", "introduction", "linkedin", "social media",
       "professional network", "community", "relationship", "alliance", "association",
       "group", "meetup", "conference", "event", "workshop", "webinar", "seminar",
       "symposium", "forum", "panel", "discussion", "colleague", "coworker", "peer",
       "supervisor", "manager", "boss", "subordinate", "team", "collaboration",
       "cooperation", "coordination", "conflict", "resolution", "problem", "solution",
       "leadership", "management", "culture", "environment", "atmosphere", "climate",
       "politics", "communication", "feedback", "review", "performance", "productivity",
       "efficiency", "effectiveness", "work-life", "balance", "burnout", "stress",
       "pressure", "wellbeing", "wellness", "health", "satisfaction", "fulfillment",
       "enjoyment", "happiness", "learn", "study", "training", "development",
       "improvement", "enhancement", "up-skilling", "reskilling", "course", "program",
       "degree", "education", "bootcamp", "certification", "workshop", "class", "lecture",
       "seminar", "conference", "knowledge", "expertise", "competency", "capability",
       "ability", "talent", "strength", "aptitude", "intelligence", "hard skill",
       "soft skill", "technical skill", "people skill", "communication skill",
       "developer", "engineer", "designer", "manager", "director", "analyst",
       "specialist", "consultant", "coordinator", "assistant", "associate", "lead",
       "senior", "junior", "intern", "ceo", "cto", "cfo", "vp", "head", "chief",
       "president", "founderinterview", "recruiter", "hiring manager", "question",
       "answer", "preparation", "behavioral", "technical", "screening", "assessment",
       "evaluation" >>

\* general_career_phrases (adjacent literals without a comma are one string)
general_career_phrases ==
    << "how to get a", "how to become", "what should i do", "i need help with my",
       "looking for advice", "need guidance", "struggling with", "tips for" >>

Conversations == { "A", "B" }

AdviceQueries == { "hello", "career advice for engineers", "tell me about the salary" }

AdviceContexts ==
    { NoMeta,
      job_listings_metadata(<< job_dict(CsvRows[1]), job_dict(CsvRows[2]) >>, "remote work") }

\* the substring tests of is_career_question and generate_career_advice on each
\* query, made once
QueryFacts ==
    [ q \in AdviceQueries |->
        [job_interest_phrase |-> ContainsAny(Lower(q), job_interest_phrases),
         followup |-> is_followup_question(q),
         relevant_topic |-> ContainsAny(Lower(q), relevant_topics),
         general_career_phrase |-> ContainsAny(Lower(q), general_career_phrases)] ]

\* is_career_question, mem being memory.chat_memory.messages
is_career_question(q, ctx, mem) ==
    \/ (ctx # NoMeta /\ ctx.type = "job_listings")
    \/ QueryFacts[q].job_interest_phrase
    \/ (QueryFacts[q].followup /\ mem # << >>)
    \/ QueryFacts[q].relevant_topic
    \/ QueryFacts[q].general_career_phrase

job_interest_keywords ==
    << "interested in", "tell me about", "like", "want", "apply", "yes", "more about",
       "details", "salary", "requirements", "responsibilities", "company", "location",
       "remote", "hybrid", "skills", "qualifications", "application", "sounds good" >>

\* any(keyword in query.lower() for keyword in job_interest_keywords), on each query
JobInterest == [ q \in AdviceQueries |-> ContainsAny(Lower(q), job_interest_keywords) ]

\* generate_structured_job_response(query, context.get("jobs", [])) on each query
StructuredResponse ==
    [ q \in AdviceQueries, ctx \in AdviceContexts |->
        generate_structured_job_response(q, ctx.jobs).response ]

\* response.strip()
StrippedReply == Strip(GeneratedReply)

\* the result of a call that returned ret
advice_result(ret, mem, verified, path, career, prompt, failed, err) ==
    [ret |-> ret, memory |-> mem, verified |-> verified, path |-> path,
     career |-> career, prompt |-> prompt, failed |-> failed, err |-> err,
     raised |-> NoValue]

\* the handler of the outer try: direct_generate_response as the last resort,
\* the general career advice if that raises as well
last_resort(q, ctx, mem, key, verified, o, conv, failed) ==
    LET d == direct_generate_response(q, ctx, mem, key, verified, o, conv)
    IN  IF d.raised = NoValue
        THEN advice_result(d.ret, d.memory, d.verified, "last resort", TRUE, d.prompt, failed, d.err)
        ELSE advice_result(GeneralCareerAdvice, d.memory, d.verified, "last resort", TRUE,
                           d.prompt, failed, d.err)

\* return direct_generate_response(query, context) inside the outer try; failed
\* is the set of requests that have failed before it
direct_fallback(q, ctx, mem, key, verified, o, conv, failed) ==
    LET d == direct_generate_response(q, ctx, mem, key, verified, o, conv)
        v == verify_api_key(key, verified, o.verify_direct)
        f == failed \cup (IF ~v.ret THEN { "verify_api_key" }
                          ELSE IF o.direct # "ok" THEN { "direct" } ELSE { })
    IN  IF d.raised = NoValue
        THEN advice_result(d.ret, d.memory, d.verified, "direct", TRUE, d.prompt, f, d.err)
        ELSE last_resort(q, ctx, d.memory, key, d.verified, o, conv, f)

\* generate_career_advice(query, context) called on behalf of conversation conv:
\* the value returned, the module state afterwards, the return statement taken,
\* the classification made, the memory messages sent to the model and the
\* requests that failed
generate_career_advice(q, ctx, mem, key, verified, o, conv) ==
    IF /\ ctx # NoMeta /\ ctx.type = "job_listings"
       /\ JobInterest[q]
    THEN advice_result(StructuredResponse[q, ctx], mem, verified,
                       "structured", NoValue, << >>, { }, NoValue)
    ELSE IF ~is_career_question(q, ctx, mem)
    THEN advice_result(CareerFocusReminder, mem, verified, "reminder", FALSE, << >>, { }, NoValue)
    ELSE
      LET injected == IF ctx # NoMeta THEN inject_context_into_memory(ctx, mem, conv) ELSE mem
          c == get_conversation_chain(key, verified, o)
          v == verify_api_key(key, verified, o.verify)
      IN  IF c.chain
          THEN LET asked == Append(injected, human_message(q, conv))
               IN  IF o.predict = "ok"
                   THEN advice_result(StrippedReply,
                                      Append(asked, ai_message(GeneratedReply, conv)),
                                      c.verified, "chain", TRUE, asked, { }, NoValue)
                   ELSE direct_fallback(q, ctx, asked, key, c.verified, o, conv,
                                        { "chain.predict" })
          ELSE direct_fallback(q, ctx, injected, key, c.verified, o, conv,
                               IF ~v.ret THEN { "verify_api_key" }
                               ELSE { "get_conversation_chain" })

\* what the service does with the requests of one call; the outcome of a
\* request the call does not make is "ok"
Outcomes ==
    { o \in [verify : ServiceOutcomes, create : { "ok", "raise" }, predict : { "ok", "raise" },
             verify_direct : ServiceOutcomes, direct : ServiceOutcomes,
             err : ErrorTexts \cup { NoValue }] :
        /\ (o.verify # "ok" => o.create = "ok" /\ o.predict = "ok")
        /\ (o.verify = "ok" => o.verify_direct = "ok")
        /\ (o.create = "raise" => o.predict = "ok")
        /\ (o.verify = "ok" /\ o.create = "ok" /\ o.predict = "ok" => o.direct = "ok")
        /\ (o.verify_direct # "ok" => o.direct = "ok")
        /\ (o.err # NoValue <=> o.direct = "raise") }

AdviceInit ==
    /\ GEMINI_API_KEY \in { NoValue, "AIza-key" }
    /\ api_key_verified = FALSE
    /\ memory = << >>
    /\ advice_call = NoAdviceCall
    /\ reco_call = NoRecoCall
    /\ query = NoValue
    /\ EnhIdle
    /\ ResIdle
    /\ SrchIdle
    /\ AppIdle

adviceUnchanged == <<query, enhVars, resVars, srchVars, appVars, reco_call, GEMINI_API_KEY>>

\* is_career_question(query, context) called on behalf of a conversation
IsCareerQuestion ==
    /\ advice_call.calls < MaxAdviceCalls
    /\ \E conv \in Conversations, q \in AdviceQueries, ctx \in AdviceContexts :
         advice_call' = [fn |-> "is_career_question", calls |-> advice_call.calls + 1,
                         conv |-> conv, query |-> q, context |-> ctx, history |-> memory,
                         ret |-> is_career_question(q, ctx, memory)]
    /\ UNCHANGED <<api_key_verified, memory, adviceUnchanged>>

\* generate_career_advice(query, context) called on behalf of a conversation
GenerateCareerAdvice ==
    /\ advice_call.calls < MaxAdviceCalls
    /\ \E conv \in Conversations, q \in AdviceQueries, ctx \in AdviceContexts, o \in Outcomes :
         LET r == generate_career_advice(q, ctx, memory, GEMINI_API_KEY, api_key_verified,
                                         o, conv)
         IN  /\ advice_call' = [fn |-> "generate_career_advice",
                                calls |-> advice_call.calls + 1,
                                conv |-> conv, query |-> q, context |-> ctx,
                                history |-> memory, err |-> r.err,
                                ret |-> r.ret, raised |-> r.raised, path |-> r.path,
                                career |-> r.career, prompt |-> r.prompt,
                                failed |-> r.failed]
             /\ memory' = r.memory
             /\ api_key_verified' = r.verified
    /\ UNCHANGED adviceUnchanged

\* reset_conversation()
reset_conversation ==
    /\ memory' = << >>
    /\ UNCHANGED <<api_key_verified, advice_call, adviceUnchanged>>

AdviceNext == IsCareerQuestion \/ GenerateCareerAdvice \/ reset_conversation

SpecAdvice == AdviceInit /\ [][AdviceNext]_vars

(***************************************************************************)
(* Claims about generate_career_advice                                     *)
(***************************************************************************)
AdviceReturned == advice_call.calls > 0 /\ advice_call.fn = "generate_career_advice"

\* the texts the fallback branches return whatever the failure was
FixedFallbackTexts == { ConnectionIssue, ResponseGenerationIssue, GeneralCareerAdvice }

\* the reply of a request that succeeded, as the chain path or the direct path returns it
GeneratedReplies == { GeneratedReply, StrippedReply }

\* C18 as stated: generate_career_advice returns a string and never raises, and
\* whenever a request to the completion service failed and no generated reply is
\* returned, the value returned is one of the fixed fallback texts.
C18_FailureGivesFixedFallback ==
    AdviceReturned =>
        /\ advice_call.raised = NoValue
        /\ advice_call.ret # NoValue
        /\ (advice_call.failed # { } /\ advice_call.ret \notin GeneratedReplies
               => advice_call.ret \in FixedFallbackTexts)

\* C18 amended: generate_career_advice returns a string and never raises; after a
\* failed request it returns the reply of the direct call if that call succeeded,
\* the Technical Difficulty text with at most the first 50 characters of the
\* exception message if the direct call raised, and a fixed fallback text otherwise.
C18_FallbackOrTruncatedError ==
    AdviceReturned =>
        /\ advice_call.raised = NoValue
        /\ advice_call.ret # NoValue
        /\ (advice_call.err # NoValue =>
               LET ret == advice_call.ret
                   n == Len(TechnicalDifficultyHead)
               IN  /\ Len(ret) <= n + 50 + 3
                   /\ SubSeq(ret, 1, n) = TechnicalDifficultyHead
                   /\ SubSeq(ret, n + 1, Len(ret) - 3) = Prefix(advice_call.err, 50))
        /\ (advice_call.failed # { } /\ advice_call.err = NoValue =>
               \/ advice_call.ret \in FixedFallbackTexts
               \/ advice_call.ret = GeneratedReply /\ advice_call.path = "direct"
                    /\ "direct" \notin advice_call.failed)

\* chain.predict raised and then the direct call raised with a message of more
\* than 50 characters
C18_Witness ==
    /\ AdviceReturned
    /\ advice_call.failed = { "chain.predict", "direct" }
    /\ advice_call.err # NoValue
    /\ Len(advice_call.err) > 50

(***************************************************************************)
(* Claims about the conversation memory                                    *)
(***************************************************************************)
\* the messages of mem appended by calls made for conversation conv
Own(mem, conv) == SelectSeq(mem, LAMBDA m : m.conv = conv)

\* C20: two conversations do not influence each other: the classification of a
\* query made for a conversation is the one its own turns alone give, and the
\* messages sent to the model with it are messages of that conversation.
C20_NoCrossConversationInfluence ==
    advice_call.calls > 0 =>
        LET own == Own(advice_call.history, advice_call.conv)
        IN  /\ (advice_call.fn = "is_career_question" =>
                   advice_call.ret
                     = is_career_question(advice_call.query, advice_call.context, own))
            /\ (advice_call.fn = "generate_career_advice" =>
                   /\ (advice_call.path # "structured" =>
                          advice_call.career
                            = is_career_question(advice_call.query, advice_call.context, own))
                   /\ \A i \in 1..Len(advice_call.prompt) :
                          advice_call.prompt[i].conv = advice_call.conv)

(***************************************************************************)
(* Claims about a process started without a readable index                 *)
(***************************************************************************)
\* the index or the chunk file is missing or corrupt
Degraded == ~rag_module_loads(file_status)

\* C19: when the index or the chunk file cannot be loaded, get_rag_service reports
\* unavailable, no user turn calls the search function, and every user turn ends
\* with the user's message followed by an assistant reply (user_input is set by
\* the script run that processed a chat input and by no other).
C19_DegradedWithoutSearch ==
    Degraded =>
        /\ ~rag_available
        /\ top_k = 0
        /\ (user_input # NoValue =>
               /\ Len(messages) >= 2
               /\ messages[Len(messages) - 1].role = "user"
               /\ messages[Len(messages) - 1].content = user_input
               /\ messages[Len(messages)].role = "assistant"
               /\ messages[Len(messages)].content # "")

\* a job search typed in the jobs tab of a process that started without the index
C19_Witness ==
    /\ Degraded
    /\ session_context = "jobs"
    /\ user_input = "looking for marketing jobs"
    /\ context = NoMeta
    /\ Len(messages) > 0
    /\ messages[Len(messages)].role = "assistant"
    /\ messages[Len(messages)].content = BasedOnYourInterest(user_input)

(***************************************************************************)
(* A session that starts from a saved chat                                 *)
(***************************************************************************)
MaxSaved == 3       \* tab clicks and turns recorded in a saved chat

SavedSearch == "looking for marketing jobs"

\* what one tab click or one turn of an earlier session left in the chat file: the
\* welcome of a tab, the Jobs tab list before and after a marketing search, and a
\* job search turn (metadata on the user message, none on the reply)
SavedBlocks ==
    LET db == get_job_database(TRUE, CsvRows)
        asked == << user_message(SavedSearch, NoMeta) >>
        found == get_recommended_jobs(asked, db, num_jobs)
    IN  { << assistant_message(CONTEXT_OPTIONS["interview"], << >>, NoMeta) >>,
          << jobs_tab_message(get_recommended_jobs(<< >>, db, num_jobs)) >>,
          << jobs_tab_message(found) >>,
          << user_message(SavedSearch, job_listings_metadata(found, SavedSearch)),
             assistant_message(BasedOnYourInterest(SavedSearch), found, NoMeta) >> }

RECURSIVE SavedChatsOf(_)
\* the chats of at most n blocks after the welcome message
SavedChatsOf(n) ==
    IF n = 0 THEN { << assistant_message(CONTEXT_OPTIONS["general"], << >>, NoMeta) >> }
    ELSE SavedChatsOf(n - 1) \cup { c \o b : c \in SavedChatsOf(n - 1), b \in SavedBlocks }

SavedChats == SavedChatsOf(MaxSaved)

\* a user opens the app; the chat file holds an earlier session
HistoryInit ==
    /\ show_login = TRUE
    /\ user_id = NoValue
    /\ messages = << >>
    /\ saved_chat \in SavedChats
    /\ session_context = "general"
    /\ resume_mode = FALSE
    /\ current_question = 0 /\ user_info = EmptyUserInfo /\ api_key = NoValue
    /\ job_database = get_job_database(TRUE, CsvRows)
    /\ rag_available = FALSE
    /\ user_input = NoValue
    /\ context = NoMeta
    /\ query = NoValue
    /\ EnhIdle
    /\ ResIdle
    /\ SvcIdle
    /\ corpus = CsvRows /\ changes = 0
    /\ emb_file = << >> /\ chunks_file = << >> /\ index_file = << >>
    /\ file_status = FilesReadable
    /\ loaded = FALSE /\ index = << >> /\ job_chunks = << >>
    /\ top_k = 0 /\ indices = << >> /\ results = << >> /\ raised = NoValue

\* the longest chat of such a session
HistoryLimit == MaxSaved + 4

\* the Jobs tab clicked with the loaded chat on screen
HistoryJobs == JobsClick(HistoryLimit)

\* a turn typed into the loaded chat
HistoryTurn == UserTurn(HistoryLimit)

HistoryNext == Login \/ HistoryJobs \/ HistoryTurn

SpecHistory == HistoryInit /\ [][HistoryNext]_vars

\* the positions before the just-added user message that hold an assistant message
\* carrying metadata
MetadataPositions ==
    { i \in 1..(Len(messages) - 2) :
        messages[i].role = "assistant" /\ messages[i].metadata # NoMeta }

\* C21: the context of a user turn is the metadata of the highest-indexed assistant
\* message with metadata that precedes the just-added user message, and None
\* when there is no such message.
C21_NearestAssistantMetadata ==
    user_input # NoValue =>
        IF MetadataPositions = { } THEN context = NoMeta
        ELSE context
               = messages[CHOOSE i \in MetadataPositions :
                             \A j \in MetadataPositions : j <= i].metadata

\* two assistant messages with different metadata precede the turn, and a user
\* message carrying metadata follows them
C21_Witness ==
    /\ user_input # NoValue
    /\ \E i, j \in MetadataPositions :
          /\ i < j
          /\ messages[i].metadata # messages[j].metadata
          /\ context = messages[j].metadata
    /\ \E k \in 1..(Len(messages) - 2) : \A i \in MetadataPositions : i < k /\
          messages[k].role = "user" /\ messages[k].metadata # NoMeta

\* C22: a turn handled in the jobs context with an active job list appends an
\* assistant reply whose job_listings metadata holds the same jobs in the same
\* order, so the list the next turn resolves against is the one this turn used.
C22_FollowUpKeepsCandidateSet ==
    (/\ user_input # NoValue
     /\ session_context = "jobs"
     /\ context # NoMeta
     /\ context.type = "job_listings")
    => LET reply == messages[Len(messages)]
       IN  /\ reply.role = "assistant"
           /\ reply.metadata # NoMeta
           /\ reply.metadata.type = "job_listings"
           /\ reply.metadata.jobs = context.jobs
           /\ extract_context(messages, Len(messages)).jobs = context.jobs

\* the second of two follow-ups in a row on a list of several jobs shown by the
\* Jobs tab
C22_Witness ==
    /\ user_input # NoValue
    /\ session_context = "jobs"
    /\ Len(messages) >= 5
    /\ context # NoMeta
    /\ Len(context.jobs) > 1
    /\ LET n == Len(messages)
       IN  /\ messages[n].metadata # NoMeta
           /\ messages[n - 1].role = "user"
           /\ messages[n - 2].role = "assistant"
           /\ messages[n - 3].role = "user"
           /\ messages[n - 4] = jobs_tab_message(context.jobs)

\* C23: a call of get_recommended_jobs, search_jobs or format_job_listings leaves
\* the job database it was given as it was: every category's list, its length and
\* its order.
C23_DatabaseUnchangedByCall ==
    [][(/\ reco_call' # reco_call
        /\ reco_call'.fn \in { "get_recommended_jobs", "search_jobs",
                               "format_job_listings" })
       => job_database' = job_database]_vars

\* no job occurs twice in a list
NoDuplicates(js) == \A i, j \in 1..Len(js) : i # j => js[i] # js[j]

\* C28: on a database of pairwise distinct records, whatever get_recommended_jobs
\* calls were made on it before, no result of get_recommended_jobs or search_jobs
\* holds a job twice and every category's list holds jobs of that category only.
C28_NoDuplicatesAndPureCategories ==
    /\ reco_call.fn \in { "get_recommended_jobs", "search_jobs" }
          => NoDuplicates(reco_call.ret)
    /\ \A k \in 1..Len(job_database.order) :
          \A i \in 1..Len(job_database.jobs[k]) :
             job_database.jobs[k][i].category = job_database.order[k]

\* C26: llm_service.py is found and executes, so get_llm_service reports the
\* service available and a turn in the general context is answered through the
\* module's functions, not with the static "unavailable" fallback.
C26_GeneralTurnUsesLlmService ==
    (user_input # NoValue /\ session_context = "general")
    => /\ llm_available
       /\ messages[Len(messages)].content = LlmResponse

\* C27: in the jobs context a user message holding a job search keyword is
\* answered with a recommendation list computed for that message, whether or not
\* a job list was already active.
C27_SearchKeywordGivesFreshList ==
    (/\ user_input # NoValue
     /\ session_context = "jobs"
     /\ ContainsAny(Lower(user_input), job_search_keywords))
    => LET asked == SubSeq(messages, 1, Len(messages) - 1)
           reply == messages[Len(messages)]
       IN  /\ reply.shown \in { get_recommended_jobs(asked, job_database, num_jobs),
                                get_recommended_jobs(Append(asked, user_message(user_input, NoMeta)),
                                                     job_database, num_jobs) }
           /\ reply.content \in { BasedOnYourInterest(user_input),
                                  format_job_listings(reply.shown) }

\* C29: the job type rendered for the selected job is the job_type field of its
\* record; the placeholder stands in only for a record without a job type.
C29_DetailShowsRecordJobType ==
    (response # NoValue /\ selected_job # 0)
    => LET job == jobs[selected_job]
       IN  /\ job_type = job_get(job, "job_type", "Type not specified")
           /\ detailed_job_type(job) = job_get(job, "job_type", "Full-time")

\* C24: the assistant message of a turn in which a service call failed holds at
\* most the first 50 characters of the exception text, never a longer text in
\* full.
C24_NoFullExceptionTextShown ==
    user_input # NoValue =>
       \A e \in ErrorTexts :
          Contains(messages[Len(messages)].content, e) => Len(e) <= 50

\* C25: a user turn appends exactly two messages to the conversation, the user
\* message and then one assistant message with a reply text, in every context
\* and on every error path.
C25_TurnAppendsUserThenAssistant ==
    [][user_input' # NoValue =>
          LET n == Len(messages)
          IN  /\ Len(messages') = n + 2
              /\ \A i \in 1..n : messages'[i] = messages[i]
              /\ messages'[n + 1].role = "user"
              /\ messages'[n + 1].content = user_input'
              /\ messages'[n + 2].role = "assistant"
              /\ messages'[n + 2].content # NoValue]_vars

\* the turn of the eighth answer, in which resume generation failed
C25_Witness ==
    /\ user_input # NoValue
    /\ session_context = "resume"
    /\ current_question = Len(resume_questions)
    /\ \E e \in ErrorTexts : messages[Len(messages)].content = resume_failure(e)

(***************************************************************************)
(* frontend/resume_builder.py: main, the resume builder run on its own      *)
(***************************************************************************)
MaxBuilderMsgs == 21    \* messages of one resume builder session

BuilderHello == "Hello! I'm your resume building assistant."
BuilderNeedsKey == "I need a Gemini API key to help you properly."
BuilderNeedsKeyToGenerate == "I need a Gemini API key to generate your resume."
BuilderReply == "response.text"

\* assistant_response of the except clause around resume generation
builder_failure(err) ==
    "I encountered an error while creating your resume: " \o err \o ". Please try again."

\* what the user types into the resume builder
BuilderInputs == { "create resume", " Asha Rao " }

BuilderInit ==
    /\ messages = << assistant_message(BuilderHello, << >>, NoMeta) >>
    /\ resume_mode = FALSE
    /\ current_question = 0
    /\ user_info = EmptyUserInfo
    /\ api_key \in { NoValue, "AIza-key" }
    /\ user_input = NoValue
    /\ show_login = FALSE /\ user_id = NoValue /\ saved_chat = << >>
    /\ session_context = "general"
    /\ job_database = EmptyDatabase /\ rag_available = FALSE /\ context = NoMeta
    /\ query = NoValue
    /\ EnhIdle
    /\ ResIdle
    /\ SrchIdle
    /\ SvcIdle

\* if user_input: one script run of main with a chat input; raised is the exception
\* that ended the run, NoValue if it ran to its end
BuilderTurn ==
    /\ Len(messages) + 2 <= MaxBuilderMsgs
    /\ \E text \in BuilderInputs, err \in ErrorTexts \cup { NoValue } :
         LET with_user == Append(messages, user_message(text, NoMeta))
             answer(reply) == Append(with_user, assistant_message(reply, << >>, NoMeta))
             current_q == current_question
         IN  /\ user_input' = text
             /\ IF ~resume_mode
                THEN IF ContainsAny(Lower(text), << "resume", "build", "cv", "create" >>)
                     THEN /\ resume_mode' = TRUE
                          /\ current_question' = 0
                          /\ messages' = answer("Great! I'll help you build your resume. "
                                                   \o resume_questions[1])
                          /\ raised' = NoValue
                          /\ UNCHANGED user_info
                     ELSE IF api_key # NoValue
                     \* response = model.generate_content(prompt), outside any try
                     THEN /\ messages' = IF err = NoValue THEN answer(BuilderReply)
                                         ELSE with_user
                          /\ raised' = err
                          /\ UNCHANGED <<resume_mode, current_question, user_info>>
                     ELSE /\ messages' = answer(BuilderNeedsKey)
                          /\ raised' = NoValue
                          /\ UNCHANGED <<resume_mode, current_question, user_info>>
                ELSE IF current_q >= Len(resume_fields)
                     \* current_field = resume_fields[current_q]
                     THEN /\ messages' = with_user
                          /\ raised' = IndexError
                          /\ UNCHANGED <<resume_mode, current_question, user_info>>
                     ELSE /\ user_info' = [user_info EXCEPT
                                             ![resume_fields[current_q + 1]] = Strip(text)]
                          /\ current_question' = current_q + 1
                          /\ raised' = NoValue
                          /\ IF current_q + 1 < Len(resume_questions)
                             THEN /\ messages' = answer("Thanks! "
                                                          \o resume_questions[current_q + 2])
                                  /\ UNCHANGED resume_mode
                             ELSE IF api_key # NoValue
                             \* try ... except Exception ... finally: resume_mode = False
                             THEN /\ messages' = answer(IF err = NoValue THEN ResumeCreated
                                                        ELSE builder_failure(err))
                                  /\ resume_mode' = FALSE
                             ELSE /\ messages' = answer(BuilderNeedsKeyToGenerate)
                                  /\ UNCHANGED resume_mode
    /\ UNCHANGED <<show_login, user_id, saved_chat, session_context, api_key, job_database,
                   rag_available, context, query, enhVars, resVars, fileVars, ragVars,
                   top_k, indices, results, svcVars>>

BuilderNext == BuilderTurn

SpecBuilder == BuilderInit /\ [][BuilderNext]_vars

\* C30: in both resume flows current_question is in 0..7 whenever resume_mode is
\* true, an answer is stored under resume_fields[current_question] of the turn,
\* and resume_mode is false after the eighth answer, so that no input indexes
\* resume_fields out of range.
C30_ResumeFlowStaysInRange ==
    /\ resume_mode => current_question \in 0..(Len(resume_fields) - 1)
    /\ raised # IndexError
    /\ (/\ user_input # NoValue
        /\ current_question \in 1..(Len(resume_fields) - 1)
        /\ messages[Len(messages)].content
              = "Thanks! " \o resume_questions[current_question + 1])
       => user_info[resume_fields[current_question]] \in { user_input, Strip(user_input) }
====
